---- MODULE Spec2Model ----
(***************************************************************************)
(* Model of the migration engine: the Registry, with the Go slice and map  *)
(* it is made of, and the Migrator with its four orchestration calls run   *)
(* against a tracking table.  Migration names are byte strings, modelled   *)
(* as sequences of byte values so that sort.Strings is a real comparison.  *)
(*   Spec    one Migrator built with WithMigrations, empty tracking table  *)
(*   SpecDB  one Migrator filled by Register, a tracking table left behind *)
(*           by earlier runs                                               *)
(*   SpecReg two registries that start empty                               *)
(*   SpecList a registry and a caller that holds on to what List returned  *)
(*   SpecCopy two registries right after r.From(other)                     *)
(*   SpecThr two goroutines, each in one Register or From call             *)
(***************************************************************************)
EXTENDS Integers, Sequences, FiniteSets, TLC

VARIABLES arrays, regs, table, call, prev, calls, snap, thr, mtx, mig, procs, dblock, log

vars == <<arrays, regs, table, call, prev, calls, snap, thr, mtx, mig, procs, dblock, log>>

(* ------------------------------ bounds --------------------------------- *)

\* number of backing arrays the heap can hold at one time
NumArrays == 4
\* largest capacity handed to EnsureCapacity / a grown backing array
MaxCap == 3
\* largest number of rows the tracking table may hold
MaxRows == 4
\* number of calls made on a constructed Migrator
MaxCalls == 3
\* number of calls made on the two registries
MaxRegCalls == 3
\* number of calls made on a Migrator constructed over an existing table
MaxDBCalls == 1
\* number of rows, and largest batch number, of an existing table
MaxPreRows == 2
\* number of calls made by a caller that keeps what List returned
MaxListCalls == 2
\* number of Register calls made after a From
MaxCopyCalls == 2

\* calls in a behaviour of SpecCap: one EnsureCapacity and the Registers after it
MaxCapCalls == 3
\* calls made on the registries and on the Migrator over them, in SpecFill
MaxFillCalls == 3
\* length of the lists handed to difference
MaxDiffLen == 2
\* number of options handed to NewMigrator
MaxOpts == 2
\* width of uint and int, in bits
UintBits == 3

(* ------------------------------ names ---------------------------------- *)

\* DefaultInitialMigrationName, "000000000000_init": sorts before the others
DefaultInitialMigrationName == <<0>>

Names == { <<0>>, <<1>>, <<1, 0>> }

\* the two registries of the model: the Migrator's own and a caller's
RegIds == {"x", "other"}

ArrIds == 1..NumArrays

\* the shapes a value passed as up/down can have
FuncShapes == {"nil", "tx", "txctx", "badsig"}

\* the <<up, down>> pairs the callers of Register pass
Changesets ==
    { <<"tx", "tx">>, <<"txctx", "txctx">>, <<"nil", "tx">>, <<"tx", "nil">>,
      <<"badsig", "tx">>, <<"tx", "badsig">> }

(* ------------------------- strings and sorting ------------------------- *)

RECURSIVE StrLess(_, _)
\* Go's < on strings: bytewise lexicographic, a proper prefix is smaller
StrLess(s, t) ==
    IF t = <<>> THEN FALSE
    ELSE IF s = <<>> THEN TRUE
    ELSE IF Head(s) # Head(t) THEN Head(s) < Head(t)
    ELSE StrLess(Tail(s), Tail(t))

RECURSIVE InsertSorted(_, _)
InsertSorted(x, s) ==
    IF s = <<>> THEN <<x>>
    ELSE IF StrLess(Head(s), x) THEN <<Head(s)>> \o InsertSorted(x, Tail(s))
    ELSE <<x>> \o s

RECURSIVE SortStrings(_)
\* sort.Strings: ascending order
SortStrings(s) ==
    IF s = <<>> THEN <<>> ELSE InsertSorted(Head(s), SortStrings(Tail(s)))

Range(s) == { s[i] : i \in DOMAIN s }

Reverse(s) == [i \in 1..Len(s) |-> s[Len(s) + 1 - i]]

RECURSIVE Zeros(_)
\* n zero-valued strings
Zeros(n) == IF n <= 0 THEN <<>> ELSE <<(<<>>)>> \o Zeros(n - 1)

(* ------------------------------ the heap ------------------------------- *)
(* A slice is [arr, len]: arr = 0 is the nil slice, otherwise arr names a  *)
(* backing array whose length is the slice's capacity.  w is the heap, the  *)
(* registries and the slice a caller of List holds.                        *)

NilSlice == [arr |-> 0, len |-> 0]

EmptyMap == [n \in {} |-> 0]

\* zero value of Registry
ZeroRegistry == [mapNil |-> TRUE, allMigrations |-> EmptyMap, migrationNames |-> NilSlice]

Elems(w, s) == IF s.arr = 0 THEN <<>> ELSE SubSeq(w.arrays[s.arr], 1, s.len)

CapOf(w, s) == IF s.arr = 0 THEN 0 ELSE Len(w.arrays[s.arr])

UsedArrs(w) == ({ w.regs[r].migrationNames.arr : r \in RegIds } \cup {w.snap.s.arr}) \ {0}

FreeArr(w) == CHOOSE a \in ArrIds \ UsedArrs(w) : \A b \in ArrIds \ UsedArrs(w) : a <= b

\* drop the backing arrays no slice refers to
Collect(w) ==
    [w EXCEPT !.arrays = [a \in ArrIds |-> IF a \in UsedArrs(w) THEN w.arrays[a] ELSE <<>>]]

(* ------------------------------ Registry ------------------------------- *)

\* r.migrationNames = a fresh backing array of capacity c holding contents
WithNewArray(w, r, contents, c) ==
    LET a == FreeArr(w)
    IN  [w EXCEPT !.arrays[a] = contents \o Zeros(c - Len(contents)),
                  !.regs[r].migrationNames = [arr |-> a, len |-> Len(contents)]]

\* capacities the runtime may give the array append allocates for n + 1
\* elements: an exact fit or the doubled capacity
GrowCaps(n) == { n + 1, IF n = 0 THEN 1 ELSE 2 * n }

\* r.migrationNames = append(r.migrationNames, name)
AppendName(w, r, name, newcap) ==
    LET s == w.regs[r].migrationNames
    IN  IF s.len < CapOf(w, s)
        THEN [w EXCEPT !.arrays[s.arr][s.len + 1] = name,
                       !.regs[r].migrationNames.len = s.len + 1]
        ELSE WithNewArray(w, r, Elems(w, s) \o <<name>>, newcap)

\* sort.Strings(r.migrationNames): sorts the backing array in place
SortNames(w, r) ==
    LET s == w.regs[r].migrationNames
    IN  IF s.arr = 0 THEN w
        ELSE [w EXCEPT !.arrays[s.arr] =
                  SortStrings(Elems(w, s)) \o SubSeq(@, s.len + 1, Len(@))]

\* if r.allMigrations == nil { r.allMigrations = make(map[string]migration) }
MakeMapIfNil(w, r) ==
    IF w.regs[r].mapNil THEN [w EXCEPT !.regs[r].mapNil = FALSE] ELSE w

\* checkAllowedMigrationFunctions that lets every value through
checkAllowedAny(fn) == "nil"

checkAllowedMigrationFunctions(fn) ==
    IF fn = "nil" THEN "ErrNullMigrationFunc"
    ELSE IF fn \in {"tx", "txctx"} THEN "nil"
    ELSE "ErrInvalidMigrationFuncRegistered"

Count(w, r) == Cardinality(DOMAIN w.regs[r].allMigrations)

Get(w, r, name) ==
    IF w.regs[r].mapNil \/ name \notin DOMAIN w.regs[r].allMigrations
    THEN [ok |-> FALSE, m |-> [Name |-> <<>>, Up |-> "nil", Down |-> "nil"]]
    ELSE [ok |-> TRUE, m |-> w.regs[r].allMigrations[name]]

List(w, r) ==
    IF w.regs[r].mapNil THEN <<>> ELSE Elems(w, w.regs[r].migrationNames)

\* Register that stores the migration before it looks for the name
RegisterOverwrite(w, r, name, up, down, newcap) ==
    LET w1 == MakeMapIfNil(w, r)
        m  == w1.regs[r].allMigrations
        w2 == [w1 EXCEPT !.regs[r].allMigrations =
                  [n \in DOMAIN m \cup {name} |->
                      IF n = name THEN [Name |-> name, Up |-> up, Down |-> down]
                      ELSE m[n]]]
    IN  IF checkAllowedMigrationFunctions(up) # "nil"
        THEN [w |-> w1, err |-> checkAllowedMigrationFunctions(up)]
        ELSE IF checkAllowedMigrationFunctions(down) # "nil"
        THEN [w |-> w1, err |-> checkAllowedMigrationFunctions(down)]
        ELSE IF name \in DOMAIN m
        THEN [w |-> w2, err |-> "ErrMigrationAlreadyExists"]
        ELSE [w |-> AppendName(w2, r, name, newcap), err |-> "nil"]

\* Register that stores the migration before it looks at the changesets
RegisterStoreFirst(w, r, name, up, down, newcap) ==
    LET w1 == MakeMapIfNil(w, r)
        m  == w1.regs[r].allMigrations
        w2 == AppendName(w1, r, name, newcap)
        w3 == [w2 EXCEPT !.regs[r].allMigrations =
                  [n \in DOMAIN m \cup {name} |->
                      IF n = name THEN [Name |-> name, Up |-> up, Down |-> down]
                      ELSE m[n]]]
    IN  IF checkAllowedMigrationFunctions(up) # "nil"
        THEN [w |-> w3, err |-> checkAllowedMigrationFunctions(up)]
        ELSE IF checkAllowedMigrationFunctions(down) # "nil"
        THEN [w |-> w3, err |-> checkAllowedMigrationFunctions(down)]
        ELSE IF name \in DOMAIN m
        THEN [w |-> w1, err |-> "ErrMigrationAlreadyExists"]
        ELSE [w |-> w3, err |-> "nil"]

\* Registry.Register: the world after the call and the error it returns
Register(w, r, name, up, down, newcap) ==
    LET w1 == MakeMapIfNil(w, r)
        m  == w1.regs[r].allMigrations
    IN  IF checkAllowedMigrationFunctions(up) # "nil"
        THEN [w |-> w1, err |-> checkAllowedMigrationFunctions(up)]
        ELSE IF checkAllowedMigrationFunctions(down) # "nil"
        THEN [w |-> w1, err |-> checkAllowedMigrationFunctions(down)]
        ELSE IF name \in DOMAIN m
        THEN [w |-> w1, err |-> "ErrMigrationAlreadyExists"]
        ELSE LET w2 == AppendName(w1, r, name, newcap)
             IN  [w   |-> [w2 EXCEPT !.regs[r].allMigrations =
                              [n \in DOMAIN m \cup {name} |->
                                  IF n = name
                                  THEN [Name |-> name, Up |-> up, Down |-> down]
                                  ELSE m[n]]],
                  err |-> "nil"]

ensureCapacity(w, r, capacity) ==
    LET s  == w.regs[r].migrationNames
        w1 == IF CapOf(w, s) < capacity
              THEN WithNewArray(w, r, Elems(w, s), capacity)
              ELSE w
    IN  IF Count(w1, r) = 0
        THEN [w1 EXCEPT !.regs[r].mapNil = FALSE, !.regs[r].allMigrations = EmptyMap]
        ELSE w1

\* Registry.EnsureCapacity
EnsureCapacity(w, r, capacity) == ensureCapacity(w, r, capacity)

\* Registry.Sort
Sort(w, r) == IF w.regs[r].mapNil THEN w ELSE SortNames(w, r)

\* Registry.From, for r and other two different registries
From(w, r, other) ==
    LET w1 == MakeMapIfNil(w, r)
    IN  IF Count(w1, other) = 0 THEN w1
        ELSE LET w2 == ensureCapacity(w1, r, Count(w1, other))
                 w3 == [w2 EXCEPT !.regs[r].migrationNames =
                                      w2.regs[other].migrationNames]
                 mr == w3.regs[r].allMigrations
                 mo == w3.regs[other].allMigrations
                 w4 == [w3 EXCEPT !.regs[r].allMigrations =
                           [n \in DOMAIN mr \cup DOMAIN mo |->
                               IF n \in DOMAIN mo THEN mo[n] ELSE mr[n]]]
             IN  SortNames(w4, r)

(* --------------------------- tracking table ---------------------------- *)
(* The table is the sequence of its rows [name, batch] in the order of the *)
(* serial id column.  A transaction works on a copy tx of the table, which *)
(* RunInTransaction commits when the body returns nil and drops otherwise. *)
(* A call's ran lists the changesets it invoked, its ops the changesets it *)
(* invoked and the rows it inserted and deleted, in the order of the call. *)

NoFault == [at |-> 0, kind |-> "none"]

\* what the environment makes fail in one call: a database statement
\* (bootstrap, lock or query; also a cancelled context) of the discovery
\* phase (at = 0) or of step at, the changeset of step at, or the insert or
\* delete of the tracking row of step at
Faults ==
    {NoFault, [at |-> 0, kind |-> "stmt"]}
        \cup [at : 1..MaxRows, kind : {"stmt", "fn", "row"}]

\* select name from <table>
getCompletedMigrations(tbl) == [i \in 1..Len(tbl) |-> tbl[i].name]

\* difference whose third result is all of b
differenceAllOfB(a, b) ==
    [aNotB   |-> SelectSeq(a, LAMBDA n : n \notin Range(b)),
     unionAB |-> SelectSeq(a, LAMBDA n : n \in Range(b)),
     bNotA   |-> b]

\* difference(a, b): a - b, a union b, b - a as the loops build them
difference(a, b) ==
    [aNotB   |-> SelectSeq(a, LAMBDA n : n \notin Range(b)),
     unionAB |-> SelectSeq(a, LAMBDA n : n \in Range(b)),
     bNotA   |-> SelectSeq(b, LAMBDA n : n \notin Range(a))]

\* getMigrationsToRun that leaves out sort.Strings
getMigrationsToRunUnsorted(tbl, w) ==
    LET d == difference(getCompletedMigrations(tbl), List(w, "x"))
    IN  IF Len(d.aNotB) > 0
        THEN [pending |-> <<>>, err |-> "ErrMigrationNotKnown"]
        ELSE [pending |-> d.bNotA, err |-> "nil"]

getMigrationsToRun(tbl, w) ==
    LET d == difference(getCompletedMigrations(tbl), List(w, "x"))
    IN  IF Len(d.aNotB) > 0
        THEN [pending |-> <<>>, err |-> "ErrMigrationNotKnown"]
        ELSE [pending |-> SortStrings(d.bNotA), err |-> "nil"]

\* getBatchNumber without max: the batch of the first row
getBatchNumberFirstRow(tbl) == IF tbl = <<>> THEN 0 ELSE tbl[1].batch

\* select max(batch) from <table>, NULL scanned as 0
getBatchNumber(tbl) ==
    IF tbl = <<>> THEN 0
    ELSE CHOOSE b \in { tbl[i].batch : i \in DOMAIN tbl } :
            \A i \in DOMAIN tbl : tbl[i].batch <= b

\* getMigrationsInBatch without its where clause
getMigrationsInBatchAll(tbl, batch) == Reverse(getCompletedMigrations(tbl))

\* getMigrationsInBatch that returns the newest row of the batch only
getMigrationsInBatchNewest(tbl, batch) ==
    LET s == Reverse(getCompletedMigrations(SelectSeq(tbl, LAMBDA row : row.batch = batch)))
    IN  IF s = <<>> THEN s ELSE <<s[1]>>

\* select name from <table> where batch = ? order by id desc
getMigrationsInBatch(tbl, batch) ==
    Reverse(getCompletedMigrations(SelectSeq(tbl, LAMBDA row : row.batch = batch)))

insertCompletedMigration(tx, name, batch) ==
    Append(tx, [name |-> name, batch |-> batch])

\* delete from <table> where name = ?
removeRolledbackMigration(tx, name) == SelectSeq(tx, LAMBDA row : row.name # name)

RunInTransaction(tbl, res) == IF res.err = "nil" THEN res.tx ELSE tbl

\* Forward that goes on after a failed changeset, without the row
ForwardSwallow(w, acc, name, batch, f, k, unknown) ==
    LET g == Get(w, "x", name)
    IN  IF ~g.ok THEN [acc EXCEPT !.err = unknown]
        ELSE IF g.m.Up \notin {"tx", "txctx"}
        THEN [acc EXCEPT !.err = "ErrInvalidMigrationFuncRun"]
        ELSE IF f = [at |-> k, kind |-> "fn"]
        THEN [acc EXCEPT !.ran = Append(@, <<name, "up">>),
                         !.ops = Append(@, <<name, "up">>)]
        ELSE IF f = [at |-> k, kind |-> "row"]
        THEN [acc EXCEPT !.ran = Append(@, <<name, "up">>),
                         !.ops = Append(@, <<name, "up">>), !.err = "db"]
        ELSE [acc EXCEPT !.ran = Append(@, <<name, "up">>),
                         !.ops = @ \o << <<name, "up">>, <<name, "insert">> >>,
                         !.tx = insertCompletedMigration(@, name, batch)]

\* Forward that records a migration the registry does not hold
ForwardUnknown(w, acc, name, batch, f, k, unknown) ==
    LET g == Get(w, "x", name)
    IN  IF ~g.ok
        THEN [acc EXCEPT !.ops = Append(@, <<name, "insert">>),
                         !.tx = insertCompletedMigration(@, name, batch)]
        ELSE IF g.m.Up \notin {"tx", "txctx"}
        THEN [acc EXCEPT !.err = "ErrInvalidMigrationFuncRun"]
        ELSE IF f = [at |-> k, kind |-> "fn"]
        THEN [acc EXCEPT !.ran = Append(@, <<name, "up">>),
                         !.ops = Append(@, <<name, "up">>), !.err = "failed to migrate"]
        ELSE IF f = [at |-> k, kind |-> "row"]
        THEN [acc EXCEPT !.ran = Append(@, <<name, "up">>),
                         !.ops = Append(@, <<name, "up">>), !.err = "db"]
        ELSE [acc EXCEPT !.ran = Append(@, <<name, "up">>),
                         !.ops = @ \o << <<name, "up">>, <<name, "insert">> >>,
                         !.tx = insertCompletedMigration(@, name, batch)]

\* Get, dispatch on the shape of Up, insertCompletedMigration: the body the
\* three forward run modes share.  acc = [tx, ran, err]
Forward(w, acc, name, batch, f, k, unknown) ==
    LET g == Get(w, "x", name)
    IN  IF ~g.ok THEN [acc EXCEPT !.err = unknown]
        ELSE IF g.m.Up \notin {"tx", "txctx"}
        THEN [acc EXCEPT !.err = "ErrInvalidMigrationFuncRun"]
        ELSE IF f = [at |-> k, kind |-> "fn"]
        THEN [acc EXCEPT !.ran = Append(@, <<name, "up">>),
                         !.ops = Append(@, <<name, "up">>), !.err = "failed to migrate"]
        ELSE IF f = [at |-> k, kind |-> "row"]
        THEN [acc EXCEPT !.ran = Append(@, <<name, "up">>),
                         !.ops = Append(@, <<name, "up">>), !.err = "db"]
        ELSE [acc EXCEPT !.ran = Append(@, <<name, "up">>),
                         !.ops = @ \o << <<name, "up">>, <<name, "insert">> >>,
                         !.tx = insertCompletedMigration(@, name, batch)]

\* Init body that leaves out batch++
InitBodySameBatch(tbl, w, f) ==
    LET acc == [tx |-> tbl, ran |-> <<>>, ops |-> <<>>, err |-> "nil"]
    IN  IF f = [at |-> 0, kind |-> "stmt"] THEN [acc EXCEPT !.err = "db"]
        ELSE Forward(w, acc, DefaultInitialMigrationName, getBatchNumber(tbl),
                     f, 1, "ErrInitialMigrationNotKnown")

\* Migrator.Init: the body of its transaction
InitBody(tbl, w, f) ==
    LET acc == [tx |-> tbl, ran |-> <<>>, ops |-> <<>>, err |-> "nil"]
    IN  IF f = [at |-> 0, kind |-> "stmt"] THEN [acc EXCEPT !.err = "db"]
        ELSE Forward(w, acc, DefaultInitialMigrationName, getBatchNumber(tbl) + 1,
                     f, 1, "ErrInitialMigrationNotKnown")

RECURSIVE BatchLoop(_, _, _, _, _, _)
\* for _, migrationName := range migrationsToRun, in MigrateBatch
BatchLoop(w, todo, k, batch, f, acc) ==
    IF todo = <<>> THEN acc
    ELSE LET a == Forward(w, acc, Head(todo), batch, f, k, "ErrMigrationNotKnown")
         IN  IF a.err # "nil" THEN a
             ELSE BatchLoop(w, Tail(todo), k + 1, batch, f, a)

\* MigrateBatch body that walks the pending names from the greatest down
BatchBodyDescending(tbl, w, f) ==
    LET acc == [tx |-> tbl, ran |-> <<>>, ops |-> <<>>, err |-> "nil"]
        r   == getMigrationsToRun(tbl, w)
    IN  IF f = [at |-> 0, kind |-> "stmt"] THEN [acc EXCEPT !.err = "db"]
        ELSE IF r.err # "nil" THEN [acc EXCEPT !.err = r.err]
        ELSE IF Len(r.pending) = 0 THEN acc
        ELSE BatchLoop(w, Reverse(r.pending), 1, getBatchNumber(tbl) + 1, f, acc)

\* Migrator.MigrateBatch: the body of its transaction
BatchBody(tbl, w, f) ==
    LET acc == [tx |-> tbl, ran |-> <<>>, ops |-> <<>>, err |-> "nil"]
        r   == getMigrationsToRun(tbl, w)
    IN  IF f = [at |-> 0, kind |-> "stmt"] THEN [acc EXCEPT !.err = "db"]
        ELSE IF r.err # "nil" THEN [acc EXCEPT !.err = r.err]
        ELSE IF Len(r.pending) = 0 THEN acc
        ELSE BatchLoop(w, r.pending, 1, getBatchNumber(tbl) + 1, f, acc)

RECURSIVE StepLoop(_, _, _, _, _, _, _)
\* for _, migrationName := range migrationsToRun, in MigrateStepByStep: one
\* transaction per migration; tbl is the committed table
StepLoop(w, todo, k, f, tbl, ran, ops) ==
    IF todo = <<>> THEN [table |-> tbl, ran |-> ran, ops |-> ops, err |-> "nil"]
    ELSE LET acc == [tx |-> tbl, ran |-> ran, ops |-> ops, err |-> "nil"]
             a   == IF f = [at |-> k, kind |-> "stmt"] THEN [acc EXCEPT !.err = "db"]
                    ELSE Forward(w, acc, Head(todo), getBatchNumber(tbl) + 1,
                                 f, k, "ErrMigrationNotKnown")
         IN  IF a.err # "nil"
             THEN [table |-> RunInTransaction(tbl, a), ran |-> a.ran, ops |-> a.ops,
                   err |-> a.err]
             ELSE StepLoop(w, Tail(todo), k + 1, f, RunInTransaction(tbl, a), a.ran, a.ops)

RECURSIVE RollbackLoop(_, _, _, _, _)
\* for _, migrationName := range migrationsToRun, in Rollback
RollbackLoop(w, todo, k, f, acc) ==
    IF todo = <<>> THEN acc
    ELSE LET name == Head(todo)
             g    == Get(w, "x", name)
         IN  IF ~g.ok THEN [acc EXCEPT !.err = "ErrMigrationNotKnown"]
             ELSE IF g.m.Down \notin {"tx", "txctx"}
             THEN [acc EXCEPT !.err = "ErrInvalidMigrationFuncRun"]
             ELSE IF f = [at |-> k, kind |-> "fn"]
             THEN [acc EXCEPT !.ran = Append(@, <<name, "down">>),
                              !.ops = Append(@, <<name, "down">>),
                              !.err = "failed to rollback"]
             ELSE IF f = [at |-> k, kind |-> "row"]
             THEN [acc EXCEPT !.ran = Append(@, <<name, "down">>),
                              !.ops = Append(@, <<name, "down">>), !.err = "db"]
             ELSE RollbackLoop(w, Tail(todo), k + 1, f,
                      [acc EXCEPT !.ran = Append(@, <<name, "down">>),
                                  !.ops = @ \o << <<name, "down">>, <<name, "delete">> >>,
                                  !.tx = removeRolledbackMigration(@, name)])

\* Rollback that leaves out sort.Strings: newest row first
RollbackBodyNewestFirst(tbl, w, f) ==
    LET acc     == [tx |-> tbl, ran |-> <<>>, ops |-> <<>>, err |-> "nil"]
        missing == difference(getCompletedMigrations(tbl), List(w, "x")).aNotB
        inBatch == getMigrationsInBatch(tbl, getBatchNumber(tbl))
    IN  IF f = [at |-> 0, kind |-> "stmt"] THEN [acc EXCEPT !.err = "db"]
        ELSE IF Len(missing) > 0 THEN [acc EXCEPT !.err = "ErrMigrationNotKnown"]
        ELSE IF Len(inBatch) = 0 THEN acc
        ELSE RollbackLoop(w, inBatch, 1, f, acc)

\* Rollback that does not compare the applied names with the registry
RollbackBodyNoCheck(tbl, w, f) ==
    LET acc     == [tx |-> tbl, ran |-> <<>>, ops |-> <<>>, err |-> "nil"]
        inBatch == getMigrationsInBatch(tbl, getBatchNumber(tbl))
    IN  IF f = [at |-> 0, kind |-> "stmt"] THEN [acc EXCEPT !.err = "db"]
        ELSE IF Len(inBatch) = 0 THEN acc
        ELSE RollbackLoop(w, SortStrings(inBatch), 1, f, acc)

\* Rollback's body that reports an error when the batch has no row
RollbackBodyEmptyFails(tbl, w, f) ==
    LET acc     == [tx |-> tbl, ran |-> <<>>, ops |-> <<>>, err |-> "nil"]
        missing == difference(getCompletedMigrations(tbl), List(w, "x")).aNotB
        inBatch == getMigrationsInBatch(tbl, getBatchNumber(tbl))
    IN  IF f = [at |-> 0, kind |-> "stmt"] THEN [acc EXCEPT !.err = "db"]
        ELSE IF Len(missing) > 0 THEN [acc EXCEPT !.err = "ErrMigrationNotKnown"]
        ELSE IF Len(inBatch) = 0 THEN [acc EXCEPT !.err = "nothing to roll back"]
        ELSE RollbackLoop(w, SortStrings(inBatch), 1, f, acc)

\* Migrator.Rollback: the body of its transaction
RollbackBody(tbl, w, f) ==
    LET acc     == [tx |-> tbl, ran |-> <<>>, ops |-> <<>>, err |-> "nil"]
        missing == difference(getCompletedMigrations(tbl), List(w, "x")).aNotB
        inBatch == getMigrationsInBatch(tbl, getBatchNumber(tbl))
    IN  IF f = [at |-> 0, kind |-> "stmt"] THEN [acc EXCEPT !.err = "db"]
        ELSE IF Len(missing) > 0 THEN [acc EXCEPT !.err = "ErrMigrationNotKnown"]
        ELSE IF Len(inBatch) = 0 THEN acc
        ELSE RollbackLoop(w, SortStrings(inBatch), 1, f, acc)

\* Init that records the migration outside a transaction, as soon as its
\* changeset was called
MigratorInitRecordFirst(tbl, w, f) ==
    LET res == InitBody(tbl, w, f)
    IN  [table |-> IF res.ran = <<>> THEN tbl
                   ELSE insertCompletedMigration(tbl, DefaultInitialMigrationName,
                                                 getBatchNumber(tbl) + 1),
         ran |-> res.ran, ops |-> res.ops, err |-> res.err]

\* Migrator.Init
MigratorInitCall(tbl, w, f) ==
    LET res == InitBody(tbl, w, f)
    IN  [table |-> RunInTransaction(tbl, res), ran |-> res.ran, ops |-> res.ops, err |-> res.err]

\* MigrateBatch that keeps what the body wrote although the body failed
MigrateBatchNoTx(tbl, w, f) ==
    LET res == BatchBody(tbl, w, f)
    IN  [table |-> res.tx, ran |-> res.ran, ops |-> res.ops, err |-> res.err]

\* Migrator.MigrateBatch
MigrateBatch(tbl, w, f) ==
    LET res == BatchBody(tbl, w, f)
    IN  [table |-> RunInTransaction(tbl, res), ran |-> res.ran, ops |-> res.ops, err |-> res.err]

\* MigrateStepByStep that gives all its migrations one batch number
MigrateStepByStepOneBatch(tbl, w, f) == MigrateBatch(tbl, w, f)

\* MigrateStepByStep that runs all its steps in one transaction
MigrateStepByStepOneTx(tbl, w, f) ==
    LET r   == getMigrationsToRun(tbl, w)
        res == StepLoop(w, r.pending, 1, f, tbl, <<>>, <<>>)
    IN  IF f = [at |-> 0, kind |-> "stmt"]
        THEN [table |-> tbl, ran |-> <<>>, ops |-> <<>>, err |-> "db"]
        ELSE IF r.err # "nil" THEN [table |-> tbl, ran |-> <<>>, ops |-> <<>>, err |-> r.err]
        ELSE IF res.err # "nil" THEN [res EXCEPT !.table = tbl]
        ELSE res

\* Migrator.MigrateStepByStep
MigrateStepByStep(tbl, w, f) ==
    LET r == getMigrationsToRun(tbl, w)
    IN  IF f = [at |-> 0, kind |-> "stmt"]
        THEN [table |-> tbl, ran |-> <<>>, ops |-> <<>>, err |-> "db"]
        ELSE IF r.err # "nil" THEN [table |-> tbl, ran |-> <<>>, ops |-> <<>>, err |-> r.err]
        ELSE IF Len(r.pending) = 0 THEN [table |-> tbl, ran |-> <<>>, ops |-> <<>>, err |-> "nil"]
        ELSE StepLoop(w, r.pending, 1, f, tbl, <<>>, <<>>)

\* Rollback that keeps what the body deleted although the body failed
RollbackNoTx(tbl, w, f) ==
    LET res == RollbackBody(tbl, w, f)
    IN  [table |-> res.tx, ran |-> res.ran, ops |-> res.ops, err |-> res.err]

\* Migrator.Rollback
Rollback(tbl, w, f) ==
    LET res == RollbackBody(tbl, w, f)
    IN  [table |-> RunInTransaction(tbl, res), ran |-> res.ran, ops |-> res.ops, err |-> res.err]

(* ------------------------------ the state ------------------------------ *)
(* call records the last call and what it saw, prev the orchestration call *)
(* right before it (if the call before it was one), calls counts the calls. *)

NoCall == [op |-> "none", err |-> "nil"]

Orchestration == {"Init", "MigrateBatch", "MigrateStepByStep", "Rollback"}

\* no caller holds a result of List
NoSnap == [taken |-> FALSE, r |-> "x", s |-> NilSlice, val |-> <<>>]

\* the goroutines that call into the registries at the same time
Threads == {"t1", "t2"}

NoThreads == [t \in Threads |-> [pc |-> "idle"]]

\* zero value of sync.RWMutex: w the goroutine holding the write lock, rd
\* the goroutines holding a read lock
FreeMutexes == [r \in RegIds |-> [w |-> "none", rd |-> {}]]

World == [arrays |-> arrays, regs |-> regs, snap |-> snap]

World0 ==
    [arrays |-> [a \in ArrIds |-> <<>>], regs |-> [r \in RegIds |-> ZeroRegistry],
     snap |-> NoSnap]

\* NewMigrator has not been called
\* a *Migrator is <<>> when nil and <<m>> when it points to the Migrator m
NoMigrator == [x |-> <<>>, err |-> "nil"]

\* the processes that run a Migrator of their own against one database
Procs == {"p1", "p2"}

NoProcs == [p \in Procs |-> [pc |-> "idle"]]

\* no call is under way, no goroutine and no process has started
Idle ==
    /\ prev = NoCall
    /\ calls = 0
    /\ snap = NoSnap
    /\ thr = NoThreads
    /\ mtx = FreeMutexes
    /\ mig = NoMigrator
    /\ procs = NoProcs
    /\ dblock = "none"
    /\ log = <<>>

\* nothing but the registries and the tracking table
Sequential == call = NoCall /\ Idle

\* the registries before any call
InitReg ==
    /\ arrays = World0.arrays
    /\ regs = World0.regs
    /\ table = <<>>
    /\ Sequential

RECURSIVE RegisterAll(_, _, _, _)
\* init functions registering the names of seq, in this order, with r
RegisterAll(w, r, seq, exact) ==
    IF seq = <<>> THEN w
    ELSE LET n == w.regs[r].migrationNames.len
             c == IF exact THEN n + 1 ELSE IF n = 0 THEN 1 ELSE 2 * n
         IN  RegisterAll(Register(w, r, Head(seq), "tx", "txctx", c).w, r, Tail(seq), exact)

DistinctSeqs ==
    { s \in UNION { [1..n -> Names] : n \in 0..Cardinality(Names) } :
        \A i, j \in DOMAIN s : i # j => s[i] # s[j] }

\* NewMigrator(dbFactory, WithMigrations(&registry)): DefaultMigrator, then
\* x.registry.From(registry)
NewMigrator(w) == From(w, "x", "other")

\* a Migrator constructed over a registry filled by init functions, and an
\* empty tracking table
Init ==
    /\ \E seq \in DistinctSeqs, exact \in BOOLEAN :
          LET w == Collect(NewMigrator(RegisterAll(World0, "other", seq, exact)))
          IN  arrays = w.arrays /\ regs = w.regs
    /\ table = <<>>
    /\ Sequential

Brief(c) ==
    IF c.op \in Orchestration
    THEN [op |-> c.op, err |-> c.err, before |-> c.before, pending |-> c.pending]
    ELSE NoCall

Orchestrate(op, res, clean, f, pend, bound) ==
    /\ calls < bound
    /\ f = NoFault \/ res # clean
    /\ Len(res.table) <= MaxRows
    /\ table' = res.table
    /\ call' = [op |-> op, err |-> res.err, ran |-> res.ran, ops |-> res.ops,
                before |-> table,
                pending |-> pend, fault |-> f]
    /\ prev' = Brief(call)
    /\ calls' = calls + 1
    /\ UNCHANGED <<arrays, regs, snap, thr, mtx, mig, procs, dblock, log>>

Discovered(f) ==
    IF f = [at |-> 0, kind |-> "stmt"] THEN [pending |-> <<>>, err |-> "db"]
    ELSE getMigrationsToRun(table, World)

DoInit(f, bound) ==
    Orchestrate("Init", MigratorInitCall(table, World, f),
                MigratorInitCall(table, World, NoFault), f, <<>>, bound)

DoMigrateBatch(f, bound) ==
    Orchestrate("MigrateBatch", MigrateBatch(table, World, f),
                MigrateBatch(table, World, NoFault), f, Discovered(f).pending, bound)

DoMigrateStepByStep(f, bound) ==
    Orchestrate("MigrateStepByStep", MigrateStepByStep(table, World, f),
                MigrateStepByStep(table, World, NoFault), f, Discovered(f).pending, bound)

DoRollback(f, bound) ==
    Orchestrate("Rollback", Rollback(table, World, f),
                Rollback(table, World, NoFault), f, <<>>, bound)

Observe(w, r, name) ==
    [list |-> List(w, r), count |-> Count(w, r), get |-> Get(w, r, name)]

SetWorld(w, c, bound) ==
    /\ calls < bound
    /\ arrays' = Collect(w).arrays
    /\ regs' = Collect(w).regs
    /\ call' = c
    /\ prev' = Brief(call)
    /\ calls' = calls + 1
    /\ UNCHANGED <<table, snap, thr, mtx, mig, procs, dblock, log>>

DoRegister(r, name, up, down, bound) ==
    \E newcap \in GrowCaps(regs[r].migrationNames.len) :
        LET res == Register(World, r, name, up, down, newcap)
        IN  SetWorld(res.w,
                     [op |-> "Register", err |-> res.err, r |-> r, name |-> name,
                      up |-> up, down |-> down, was |-> Observe(World, r, name)],
                     bound)

DoFrom(r, other) ==
    /\ r # other
    /\ SetWorld(From(World, r, other),
                [op |-> "From", err |-> "nil", r |-> r, other |-> other], MaxRegCalls)

DoSort(r) ==
    SetWorld(Sort(World, r), [op |-> "Sort", err |-> "nil", r |-> r], MaxRegCalls)

DoEnsureCapacity(r, capacity) ==
    SetWorld(EnsureCapacity(World, r, capacity),
             [op |-> "EnsureCapacity", err |-> "nil", r |-> r, capacity |-> capacity],
             MaxRegCalls)

\* the calls on one Migrator, issued one at a time
Step(bound) ==
    \/ \E name \in Names, fns \in Changesets :
           DoRegister("x", name, fns[1], fns[2], bound)
    \/ \E f \in Faults : DoInit(f, bound)
    \/ \E f \in Faults : DoMigrateBatch(f, bound)
    \/ \E f \in Faults : DoMigrateStepByStep(f, bound)
    \/ \E f \in Faults : DoRollback(f, bound)

Next == Step(MaxCalls)

Spec == Init /\ [][Next]_vars

\* tables earlier runs, of Migrators with registries of their own, have left
\* behind: batch numbers start at 1 and grow with the id, without gaps
PreTables ==
    { t \in UNION { [1..n -> [name : Names, batch : 1..MaxPreRows]] : n \in 0..MaxPreRows } :
        /\ t # <<>> => t[1].batch = 1
        /\ \A i \in 1..(Len(t) - 1) : t[i + 1].batch \in {t[i].batch, t[i].batch + 1} }

\* a Migrator constructed by NewMigrator(dbFactory) and filled through
\* Migrator.Register, against a database that holds such a table
InitDB ==
    /\ \E seq \in DistinctSeqs :
          LET w == Collect(RegisterAll(World0, "x", seq, FALSE))
          IN  arrays = w.arrays /\ regs = w.regs
    /\ table \in PreTables
    /\ Sequential

NextDB == Step(MaxDBCalls)

SpecDB == InitDB /\ [][NextDB]_vars

\* the registries alone
NextReg ==
    \/ \E r \in RegIds, name \in Names, fns \in Changesets :
           DoRegister(r, name, fns[1], fns[2], MaxRegCalls)
    \/ \E r \in RegIds, other \in RegIds : DoFrom(r, other)
    \/ \E r \in RegIds : DoSort(r)
    \/ \E r \in RegIds, capacity \in 0..MaxCap : DoEnsureCapacity(r, capacity)

SpecReg == InitReg /\ [][NextReg]_vars

\* list := r.List(): the caller holds the slice List returns, which is
\* r.migrationNames[:], or a new empty slice when the map is nil
DoList(r) ==
    LET s  == IF regs[r].mapNil THEN NilSlice ELSE regs[r].migrationNames
        w  == [World EXCEPT !.snap = [taken |-> TRUE, r |-> r, s |-> s,
                                      val |-> List(World, r)]]
    IN  /\ calls < MaxListCalls
        /\ snap' = w.snap
        /\ arrays' = Collect(w).arrays
        /\ call' = [op |-> "List", err |-> "nil", r |-> r]
        /\ prev' = Brief(call)
        /\ calls' = calls + 1
        /\ UNCHANGED <<regs, table, thr, mtx, mig, procs, dblock, log>>

\* the caller writes the elements of the slice it holds
CallerWrites(op, contents) ==
    /\ calls < MaxListCalls
    /\ snap.taken
    /\ snap.s.arr # 0
    /\ arrays' = [arrays EXCEPT ![snap.s.arr] =
                      contents \o SubSeq(@, snap.s.len + 1, Len(@))]
    /\ snap' = [snap EXCEPT !.val = contents]
    /\ call' = [op |-> op, err |-> "nil", r |-> snap.r, was |-> List(World, snap.r)]
    /\ prev' = Brief(call)
    /\ calls' = calls + 1
    /\ UNCHANGED <<regs, table, thr, mtx, mig, procs, dblock, log>>

\* sort.Strings(list)
CallerSort == CallerWrites("CallerSort", SortStrings(Elems(World, snap.s)))

\* list[i] = name
CallerSet(i, name) ==
    /\ i \in 1..snap.s.len
    /\ CallerWrites("CallerSet", [Elems(World, snap.s) EXCEPT ![i] = name])

\* a registry filled by init functions, next to a second one
InitList ==
    /\ \E seq \in DistinctSeqs, oseq \in { q \in DistinctSeqs : Len(q) <= 1 } :
          LET w == Collect(RegisterAll(RegisterAll(World0, "x", seq, FALSE),
                                       "other", oseq, FALSE))
          IN  arrays = w.arrays /\ regs = w.regs
    /\ table = <<>>
    /\ Sequential

NextList ==
    \/ \E name \in Names : DoRegister("x", name, "tx", "tx", MaxListCalls)
    \/ calls < MaxListCalls /\ DoSort("x")
    \/ calls < MaxListCalls /\ (DoFrom("x", "other") \/ DoFrom("other", "x"))
    \/ calls < MaxListCalls /\ \E capacity \in 0..MaxCap : DoEnsureCapacity("x", capacity)
    \/ DoList("x")
    \/ CallerSort
    \/ \E i \in 1..MaxCap, name \in Names : CallerSet(i, name)

SpecList == InitList /\ [][NextList]_vars

\* other sized by EnsureCapacity and filled by init functions, then
\* x.From(other) on a new registry x
InitCopy ==
    /\ \E seq \in DistinctSeqs, capacity \in 0..MaxCap :
          LET w0 == RegisterAll(EnsureCapacity(World0, "other", capacity),
                                "other", seq, FALSE)
              w  == Collect(From(w0, "x", "other"))
          IN  arrays = w.arrays /\ regs = w.regs
    /\ table = <<>>
    /\ Sequential

NextCopy ==
    \E r \in RegIds, name \in Names : DoRegister(r, name, "tx", "tx", MaxCopyCalls)

SpecCopy == InitCopy /\ [][NextCopy]_vars

(* ----------------------------- goroutines ------------------------------ *)
(* Each goroutine makes one call, Register or From, and takes the steps of *)
(* the call one at a time: thr[t] holds the call and the place it is at.   *)
(* With two goroutines no read lock is asked for while a writer waits, so  *)
(* the preference sync.RWMutex gives a waiting writer plays no part.       *)

\* a mutex that lets every Lock through
CanLockAlways(m, t) == TRUE

\* sync.RWMutex.Lock returns: no writer and no reader holds the mutex
CanLock(m, t) == m.w = "none" /\ m.rd = {}

\* sync.RWMutex.RLock returns: no writer holds the mutex
CanRLock(m, t) == m.w = "none"

\* Register up to the lookup of the name: the error it returns, if any
registerCheck(w, r, name, up, down) ==
    IF checkAllowedMigrationFunctions(up) # "nil"
    THEN checkAllowedMigrationFunctions(up)
    ELSE IF checkAllowedMigrationFunctions(down) # "nil"
    THEN checkAllowedMigrationFunctions(down)
    ELSE IF name \in DOMAIN w.regs[r].allMigrations THEN "ErrMigrationAlreadyExists"
    ELSE "nil"

\* Register after the lookup: the append and the map assignment
registerStore(w, r, name, up, down, newcap) ==
    LET m  == w.regs[r].allMigrations
        w2 == AppendName(w, r, name, newcap)
    IN  [w2 EXCEPT !.regs[r].allMigrations =
            [n \in DOMAIN m \cup {name} |->
                IF n = name THEN [Name |-> name, Up |-> up, Down |-> down] ELSE m[n]]]

ThrFrame == UNCHANGED <<table, call, prev, calls, snap, mig, procs, dblock, log>>

\* go r.Register(name, up, down) / go r.From(other)
ThrCall(t, op, r, arg) ==
    /\ thr[t].pc = "idle"
    /\ thr' = [thr EXCEPT ![t] = [pc |-> "Lock", op |-> op, r |-> r, arg |-> arg,
                                  err |-> "nil"]]
    /\ UNCHANGED <<arrays, regs, mtx>>
    /\ ThrFrame

\* r.mtx.Lock(); in From also the make of the nil map
ThrLock(t) ==
    /\ thr[t].pc = "Lock"
    /\ CanLock(mtx[thr[t].r], t)
    /\ mtx' = [mtx EXCEPT ![thr[t].r].w = t]
    /\ IF thr[t].op = "From"
       THEN /\ regs' = MakeMapIfNil(World, thr[t].r).regs
            /\ thr' = [thr EXCEPT ![t].pc = "RLock"]
       ELSE /\ regs' = regs
            /\ thr' = [thr EXCEPT ![t].pc = "check"]
    /\ UNCHANGED arrays
    /\ ThrFrame

\* other.mtx.RLock()
ThrRLock(t) ==
    /\ thr[t].pc = "RLock"
    /\ CanRLock(mtx[thr[t].arg], t)
    /\ mtx' = [mtx EXCEPT ![thr[t].arg].rd = @ \cup {t}]
    /\ thr' = [thr EXCEPT ![t].pc = "copy"]
    /\ UNCHANGED <<arrays, regs>>
    /\ ThrFrame

\* the copy of From, then the deferred RUnlock and Unlock
ThrCopy(t) ==
    /\ thr[t].pc = "copy"
    /\ LET w == Collect(From(World, thr[t].r, thr[t].arg))
       IN  arrays' = w.arrays /\ regs' = w.regs
    /\ mtx' = [mtx EXCEPT ![thr[t].arg].rd = @ \ {t}, ![thr[t].r].w = "none"]
    /\ thr' = [thr EXCEPT ![t].pc = "done"]
    /\ ThrFrame

\* the checks of Register; on an error the return and the deferred Unlock
ThrCheck(t) ==
    LET c   == thr[t]
        w1  == MakeMapIfNil(World, c.r)
        err == registerCheck(w1, c.r, c.arg.name, c.arg.up, c.arg.down)
    IN  /\ c.pc = "check"
        /\ regs' = w1.regs
        /\ IF err # "nil"
           THEN /\ thr' = [thr EXCEPT ![t].pc = "done", ![t].err = err]
                /\ mtx' = [mtx EXCEPT ![c.r].w = "none"]
           ELSE /\ thr' = [thr EXCEPT ![t].pc = "store"]
                /\ mtx' = mtx
        /\ UNCHANGED arrays
        /\ ThrFrame

\* the append and the map assignment of Register, the return of nil and the
\* deferred Unlock
ThrStore(t) ==
    LET c == thr[t]
    IN  /\ c.pc = "store"
        /\ \E newcap \in GrowCaps(regs[c.r].migrationNames.len) :
               LET w == Collect(registerStore(World, c.r, c.arg.name, c.arg.up,
                                              c.arg.down, newcap))
               IN  arrays' = w.arrays /\ regs' = w.regs
        /\ thr' = [thr EXCEPT ![t].pc = "done"]
        /\ mtx' = [mtx EXCEPT ![c.r].w = "none"]
        /\ ThrFrame

NextThr ==
    \E t \in Threads :
        \/ \E r \in RegIds, name \in Names, fns \in Changesets :
               ThrCall(t, "Register", r, [name |-> name, up |-> fns[1], down |-> fns[2]])
        \/ \E r \in RegIds, other \in RegIds : ThrCall(t, "From", r, other)
        \/ ThrLock(t)
        \/ ThrRLock(t)
        \/ ThrCopy(t)
        \/ ThrCheck(t)
        \/ ThrStore(t)

SpecThr == InitReg /\ [][NextThr]_vars

(* ----------------------------- NewMigrator ----------------------------- *)

Uints == 0..(2 ^ UintBits - 1)

\* int(u) for u of type uint: the same bits, read as two's complement
ToInt(u) == IF u >= 2 ^ (UintBits - 1) THEN u - 2 ^ UintBits ELSE u

MigratorOpts ==
    [opt : {"WithVerbosity", "WithQuiet"}, arg : Uints]
        \cup {[opt |-> "WithoutExplicitLock", arg |-> 0]}

DefaultMigrator ==
    [initialMigration |-> DefaultInitialMigrationName, explicitLock |-> TRUE,
     verbosity |-> 0]

WithoutExplicitLock(x) == [x |-> [x EXCEPT !.explicitLock = FALSE], err |-> "nil"]

WithVerbosity(x, verbosity) ==
    IF x.verbosity < 0 THEN [x |-> x, err |-> "ErrInvalidVerbosity"]
    ELSE [x |-> [x EXCEPT !.verbosity = ToInt(verbosity)], err |-> "nil"]

WithQuiet(x, quiet) ==
    IF x.verbosity > 0 THEN [x |-> x, err |-> "ErrInvalidVerbosity"]
    ELSE [x |-> [x EXCEPT !.verbosity = ToInt(quiet)], err |-> "nil"]

\* err = opt(migrator)
ApplyOpt(x, o) ==
    IF o.opt = "WithVerbosity" THEN WithVerbosity(x, o.arg)
    ELSE IF o.opt = "WithQuiet" THEN WithQuiet(x, o.arg)
    ELSE WithoutExplicitLock(x)

RECURSIVE ApplyOpts(_, _)
\* for _, opt := range opts, in NewMigrator
ApplyOpts(x, opts) ==
    IF opts = <<>> THEN [x |-> <<x>>, err |-> "nil"]
    ELSE LET r == ApplyOpt(x, Head(opts))
         IN  IF r.err # "nil" THEN [x |-> <<>>, err |-> r.err]
             ELSE ApplyOpts(r.x, Tail(opts))

\* NewMigrator(dbFactory, opts...), no WithMigrationDir among the options:
\* getwd is whether os.Getwd succeeds
NewMigratorWith(opts, getwd) ==
    LET r == ApplyOpts(DefaultMigrator, opts)
    IN  IF r.err # "nil" THEN r
        ELSE IF ~getwd THEN [x |-> <<>>, err |-> "getwd"]
        ELSE r

OptLists == UNION { [1..n -> MigratorOpts] : n \in 0..MaxOpts }

DoNewMigrator(opts, getwd) ==
    /\ mig = NoMigrator
    /\ call.op = "none"
    /\ mig' = NewMigratorWith(opts, getwd)
    /\ call' = [op |-> "NewMigrator", err |-> mig'.err, opts |-> opts]
    /\ UNCHANGED <<arrays, regs, table, prev, calls, snap, thr, mtx, procs, dblock, log>>

NextOpt == \E opts \in OptLists, getwd \in BOOLEAN : DoNewMigrator(opts, getwd)

SpecOpt == InitReg /\ [][NextOpt]_vars

(* ------------------------------ processes ------------------------------ *)
(* Each process runs one orchestration call of a Migrator of its own, with *)
(* the registry x, statement by statement against the one database.  A     *)
(* statement reads the committed table and the rows its own transaction    *)
(* has inserted; procs[p].ins holds these rows until the commit, which     *)
(* appends them to the table.  dblock is the process whose transaction     *)
(* holds the SHARE ROW EXCLUSIVE lock; an insert or a delete takes the     *)
(* ROW EXCLUSIVE lock, which conflicts with it.  procs[p].del holds the    *)
(* names whose rows the transaction has deleted.  log lists the committed  *)
(* transactions that invoked a forward changeset, with the rows they       *)
(* recorded.                                                               *)

\* maybeLockTable that locks whatever explicitLock says
maybeLockTableAlways(explicitLock) == TRUE

\* maybeLockTable that never locks
maybeLockTableNever(explicitLock) == FALSE

\* maybeLockTable: whether it executes the LOCK statement
maybeLockTable(explicitLock) == explicitLock

\* a table lock that excludes nobody
CanLockTableAlways(l, p) == TRUE

\* LOCK ... in SHARE ROW EXCLUSIVE MODE returns: the mode is self-exclusive
CanLockTable(l, p) == l = "none"

InTx(q) ==
    procs[q].pc \in {"lock", "read", "batch", "run", "insert", "check", "down",
                     "delete", "commit"}

\* what the statements of p's transaction see
Visible(p) ==
    SelectSeq(table, LAMBDA row : row.name \notin procs[p].del) \o procs[p].ins

ProcFrame == UNCHANGED <<arrays, regs, call, prev, calls, snap, thr, mtx, mig>>

\* x.Init() / x.MigrateBatch() / x.MigrateStepByStep() / x.Rollback():
\* db.RunInTransaction
ProcCall(p, op, explicitLock) ==
    /\ procs[p].pc = "idle"
    /\ procs' = [procs EXCEPT ![p] =
                    [pc |-> "lock", op |-> op, explicitLock |-> explicitLock,
                     phase |-> IF op = "MigrateStepByStep" THEN "discover" ELSE "run",
                     pending |-> <<>>, todo |-> <<>>, batch |-> 0, ins |-> <<>>,
                     del |-> {}, ran |-> <<>>, err |-> "nil"]]
    /\ UNCHANGED <<table, dblock, log>>
    /\ ProcFrame

\* ensureMigrationTable (not in the steps of MigrateStepByStep), maybeLockTable
ProcLock(p) ==
    LET c == procs[p]
    IN  /\ c.pc = "lock"
        /\ IF maybeLockTable(c.explicitLock)
           THEN /\ CanLockTable(dblock, p)
                /\ \A q \in Procs \ {p} : InTx(q) => procs[q].ins = <<>>
                /\ dblock' = p
           ELSE dblock' = dblock
        /\ procs' = [procs EXCEPT ![p].pc =
                        IF c.op = "Init" \/ c.phase = "step" THEN "batch"
                        ELSE IF c.op = "Rollback" THEN "check" ELSE "read"]
        /\ UNCHANGED <<table, log>>
        /\ ProcFrame

\* the end of a transaction that leaves the table lock with the process
FinishKeepsLock(p, c, committed) ==
    /\ dblock' = dblock
    /\ table' = IF committed
                THEN SelectSeq(table, LAMBDA row : row.name \notin c.del) \o c.ins
                ELSE table
    /\ log' = log
    /\ procs' = [procs EXCEPT ![p] =
                    IF committed /\ c.op = "MigrateStepByStep" /\ c.todo # <<>>
                    THEN [c EXCEPT !.pc = "lock", !.phase = "step", !.ins = <<>>,
                                   !.ran = <<>>]
                    ELSE [c EXCEPT !.pc = "done", !.ins = <<>>, !.del = {},
                                   !.ran = <<>>]]
    /\ ProcFrame

\* the end of a transaction: the lock goes, the process returns or goes on
Finish(p, c, committed) ==
    /\ dblock' = IF dblock = p THEN "none" ELSE dblock
    /\ table' = IF committed
                THEN SelectSeq(table, LAMBDA row : row.name \notin c.del) \o c.ins
                ELSE table
    /\ log' = IF committed /\ c.ran # <<>> /\ c.op # "Rollback"
              THEN Append(log, [p |-> p, rows |-> c.ins, ran |-> c.ran])
              ELSE log
    /\ procs' = [procs EXCEPT ![p] =
                    IF committed /\ c.op = "MigrateStepByStep" /\ c.todo # <<>>
                    THEN [c EXCEPT !.pc = "lock", !.phase = "step", !.ins = <<>>,
                                   !.ran = <<>>]
                    ELSE [c EXCEPT !.pc = "done", !.ins = <<>>, !.del = {},
                                   !.ran = <<>>]]
    /\ ProcFrame

\* getMigrationsToRun
ProcRead(p) ==
    LET c == procs[p]
        r == getMigrationsToRun(Visible(p), World)
    IN  /\ c.pc = "read"
        /\ IF r.err # "nil"
           THEN Finish(p, [c EXCEPT !.err = r.err], FALSE)
           ELSE /\ procs' = [procs EXCEPT ![p] =
                      [c EXCEPT !.pending = r.pending, !.todo = r.pending,
                                !.pc = IF c.op = "MigrateBatch" /\ r.pending # <<>>
                                       THEN "batch" ELSE "commit"]]
                /\ UNCHANGED <<table, dblock, log>>
                /\ ProcFrame

\* getBatchNumber, batch++
ProcBatch(p) ==
    /\ procs[p].pc = "batch"
    /\ procs' = [procs EXCEPT ![p].batch = getBatchNumber(Visible(p)) + 1,
                              ![p].pc = "run"]
    /\ UNCHANGED <<table, dblock, log>>
    /\ ProcFrame

\* registry.Get and the call of the forward changeset
ProcRun(p) ==
    LET c    == procs[p]
        name == IF c.op = "Init" THEN DefaultInitialMigrationName ELSE Head(c.todo)
        g    == Get(World, "x", name)
    IN  /\ c.pc = "run"
        /\ IF ~g.ok
           THEN Finish(p, [c EXCEPT !.err = IF c.op = "Init"
                                            THEN "ErrInitialMigrationNotKnown"
                                            ELSE "ErrMigrationNotKnown"], FALSE)
           ELSE IF g.m.Up \notin {"tx", "txctx"}
           THEN Finish(p, [c EXCEPT !.err = "ErrInvalidMigrationFuncRun"], FALSE)
           ELSE /\ procs' = [procs EXCEPT ![p].ran = Append(@, name),
                                         ![p].pc = "insert"]
                /\ UNCHANGED <<table, dblock, log>>
                /\ ProcFrame

\* insertCompletedMigration
ProcInsert(p) ==
    LET c    == procs[p]
        name == IF c.op = "Init" THEN DefaultInitialMigrationName ELSE Head(c.todo)
        todo == IF c.op = "Init" THEN <<>> ELSE Tail(c.todo)
    IN  /\ c.pc = "insert"
        /\ dblock \in {"none", p}
        /\ procs' = [procs EXCEPT ![p] =
                        [c EXCEPT !.ins = insertCompletedMigration(@, name, c.batch),
                                  !.todo = todo,
                                  !.pc = IF c.op = "MigrateBatch" /\ todo # <<>>
                                         THEN "run" ELSE "commit"]]
        /\ UNCHANGED <<table, dblock, log>>
        /\ ProcFrame

\* the body returned nil: RunInTransaction commits
ProcCommit(p) ==
    /\ procs[p].pc = "commit"
    /\ Finish(p, procs[p], TRUE)

\* a statement or a changeset fails, or the context is cancelled: the body
\* returns the error and RunInTransaction rolls back
ProcFail(p) ==
    /\ procs[p].pc \in {"lock", "read", "batch", "run", "insert", "check", "down",
                         "delete"}
    /\ Finish(p, [procs[p] EXCEPT !.err = "failed"], FALSE)

ProcSteps(p) ==
    \/ ProcLock(p)
    \/ ProcRead(p)
    \/ ProcBatch(p)
    \/ ProcRun(p)
    \/ ProcInsert(p)
    \/ ProcCommit(p)
    \/ ProcFail(p)

ForwardCalls == {"Init", "MigrateBatch", "MigrateStepByStep"}

\* Migrators built by NewMigrator(dbFactory, WithMigrations(&registry))
NextLock ==
    \E p \in Procs :
        \/ \E op \in ForwardCalls : ProcCall(p, op, DefaultMigrator.explicitLock)
        \/ ProcSteps(p)

SpecLock == Init /\ [][NextLock]_vars

\* Migrators built with the option WithoutExplicitLock() as well
NextNoLock ==
    \E p \in Procs :
        \/ \E op \in ForwardCalls :
               ProcCall(p, op, WithoutExplicitLock(DefaultMigrator).x.explicitLock)
        \/ ProcSteps(p)

SpecNoLock == Init /\ [][NextNoLock]_vars

\* Rollback: getCompletedMigrations and difference, getBatchNumber,
\* getMigrationsInBatch, sort.Strings
ProcCheck(p) ==
    LET c       == procs[p]
        missing == difference(getCompletedMigrations(Visible(p)), List(World, "x")).aNotB
        batch   == getBatchNumber(Visible(p))
        todo    == SortStrings(getMigrationsInBatch(Visible(p), batch))
    IN  /\ c.pc = "check"
        /\ IF Len(missing) > 0
           THEN Finish(p, [c EXCEPT !.err = "ErrMigrationNotKnown"], FALSE)
           ELSE /\ procs' = [procs EXCEPT ![p] =
                      [c EXCEPT !.batch = batch, !.pending = todo, !.todo = todo,
                                !.pc = IF todo = <<>> THEN "commit" ELSE "down"]]
                /\ UNCHANGED <<table, dblock, log>>
                /\ ProcFrame

\* Rollback: registry.Get and the call of the backward changeset
ProcDown(p) ==
    LET c == procs[p]
        g == Get(World, "x", Head(c.todo))
    IN  /\ c.pc = "down"
        /\ IF ~g.ok
           THEN Finish(p, [c EXCEPT !.err = "ErrMigrationNotKnown"], FALSE)
           ELSE IF g.m.Down \notin {"tx", "txctx"}
           THEN Finish(p, [c EXCEPT !.err = "ErrInvalidMigrationFuncRun"], FALSE)
           ELSE /\ procs' = [procs EXCEPT ![p].ran = Append(@, Head(c.todo)),
                                         ![p].pc = "delete"]
                /\ UNCHANGED <<table, dblock, log>>
                /\ ProcFrame

\* Rollback: removeRolledbackMigration
ProcDelete(p) ==
    LET c == procs[p]
    IN  /\ c.pc = "delete"
        /\ dblock \in {"none", p}
        /\ procs' = [procs EXCEPT ![p] =
                        [c EXCEPT !.del = @ \cup {Head(c.todo)},
                                  !.todo = Tail(c.todo),
                                  !.pc = IF Tail(c.todo) # <<>> THEN "down" ELSE "commit"]]
        /\ UNCHANGED <<table, dblock, log>>
        /\ ProcFrame

\* the steps of p that a statement or a changeset that terminates without
\* an error takes
Progress(p) ==
    \/ ProcLock(p)
    \/ ProcRead(p)
    \/ ProcBatch(p)
    \/ ProcRun(p)
    \/ ProcInsert(p)
    \/ ProcCheck(p)
    \/ ProcDown(p)
    \/ ProcDelete(p)
    \/ ProcCommit(p)

\* one orchestration call per process, Rollback included
NextLive ==
    \E p \in Procs :
        \/ \E op \in Orchestration : ProcCall(p, op, DefaultMigrator.explicitLock)
        \/ Progress(p)
        \/ ProcFail(p)

\* every statement and every changeset terminates, and every process is
\* scheduled: a step of a process that stays possible is taken
SpecLive ==
    Init /\ [][NextLive]_vars /\ \A p \in Procs : WF_vars(Progress(p))

(* ----------------------------- difference ------------------------------ *)

\* the lists of names handed to difference
DiffInputs == UNION { [1..n -> Names] : n \in 0..MaxDiffLen }

InitDiff ==
    /\ arrays = World0.arrays
    /\ regs = World0.regs
    /\ table = <<>>
    /\ call \in [op : {"args"}, err : {"nil"}, a : DiffInputs, b : DiffInputs]
    /\ Idle

\* aNotB, unionAB, bNotA := difference(a, b)
DoDifference ==
    /\ call.op = "args"
    /\ call' = [op |-> "difference", err |-> "nil", a |-> call.a, b |-> call.b,
                res |-> difference(call.a, call.b)]
    /\ UNCHANGED <<arrays, regs, table, prev, calls, snap, thr, mtx, mig, procs, dblock, log>>

NextDiff == DoDifference

SpecDiff == InitDiff /\ [][NextDiff]_vars

(* ------------------------- filling and running ------------------------- *)

\* calls on the two registries, which start empty, and orchestration calls
\* of the Migrator whose registry is x; the last call of a behaviour is an
\* orchestration call
NextFill ==
    \/ \E r \in RegIds, name \in Names, fns \in Changesets :
           DoRegister(r, name, fns[1], fns[2], MaxFillCalls - 1)
    \/ \E r \in RegIds, other \in RegIds :
           calls < MaxFillCalls - 1 /\ DoFrom(r, other)
    \/ \E r \in RegIds : calls < MaxFillCalls - 1 /\ DoSort(r)
    \/ \E r \in RegIds, capacity \in 0..MaxCap :
           calls < MaxFillCalls - 1 /\ DoEnsureCapacity(r, capacity)
    \/ \E f \in Faults : DoInit(f, MaxFillCalls)
    \/ \E f \in Faults : DoMigrateBatch(f, MaxFillCalls)
    \/ \E f \in Faults : DoMigrateStepByStep(f, MaxFillCalls)
    \/ \E f \in Faults : DoRollback(f, MaxFillCalls)

SpecFill == InitReg /\ [][NextFill]_vars

(* --------------------------- EnsureCapacity ---------------------------- *)
(* One EnsureCapacity call on registries that init functions have filled,  *)
(* followed by Register calls.  call.without is the heap and the           *)
(* registries of the run in which the EnsureCapacity call was not made and *)
(* the same Register calls were: every Register is done in both runs.      *)

\* the capacity append gives a full slice of n elements: the runtime's
\* growth is a function of the slice, here an exact fit or the doubling
GrowCap(n, double) == IF double /\ n > 0 THEN 2 * n ELSE n + 1

\* other sized by EnsureCapacity and filled by init functions; x a new
\* registry, or a new registry after x.From(other)
InitCap ==
    /\ \E seq \in DistinctSeqs, capacity \in 0..MaxCap, copied \in BOOLEAN :
          LET w0 == RegisterAll(EnsureCapacity(World0, "other", capacity),
                                "other", seq, FALSE)
              w  == Collect(IF copied THEN From(w0, "x", "other") ELSE w0)
          IN  arrays = w.arrays /\ regs = w.regs
    /\ table = <<>>
    /\ Sequential

\* r.EnsureCapacity(capacity)
DoEnsureCapacityOnce(r, capacity) ==
    /\ call.op = "none"
    /\ SetWorld(EnsureCapacity(World, r, capacity),
                [op |-> "EnsureCapacity", err |-> "nil", r |-> r,
                 capacity |-> capacity, without |-> World,
                 later |-> 0, errWithout |-> "nil"],
                MaxCapCalls)

\* r.Register(name, up, down) after the EnsureCapacity call
DoRegisterLater(r, name, up, down) ==
    /\ call.op = "EnsureCapacity"
    /\ \E double \in BOOLEAN :
          LET res  == Register(World, r, name, up, down,
                               GrowCap(regs[r].migrationNames.len, double))
              res0 == Register(call.without, r, name, up, down,
                               GrowCap(call.without.regs[r].migrationNames.len, double))
          IN  SetWorld(res.w,
                       [call EXCEPT !.err = res.err, !.errWithout = res0.err,
                                    !.without = Collect(res0.w), !.later = @ + 1],
                       MaxCapCalls)

NextCap ==
    \/ \E r \in RegIds, capacity \in 0..MaxCap : DoEnsureCapacityOnce(r, capacity)
    \/ \E r \in RegIds, name \in Names : DoRegisterLater(r, name, "tx", "tx")

SpecCap == InitCap /\ [][NextCap]_vars

(* ------------------------------ properties ----------------------------- *)

Distinct(s) == \A i, j \in DOMAIN s : i # j => s[i] # s[j]

Ascending(s) == \A i \in 1..(Len(s) - 1) : StrLess(s[i], s[i + 1])

HasRow(tbl, name) == \E i \in DOMAIN tbl : tbl[i].name = name

Registered(name) == Get(World, "x", name).ok

Valid(fn) == checkAllowedMigrationFunctions(fn) = "nil"

\* C1: exactly-once application: whatever Init, MigrateBatch,
\* MigrateStepByStep and Rollback calls were made, one at a time, from an
\* empty table, the tracking table holds at most one row per migration name.
C1_OneRowPerName == Distinct(getCompletedMigrations(table))

\* C2: MigrateBatch is atomic: when a forward changeset or the insert of a
\* tracking row fails, the call returns an error and the tracking table is
\* the table of before the call.
C2_BatchAtomic ==
    call.op = "MigrateBatch" =>
        /\ call.fault.kind \in {"fn", "row"} => call.err # "nil"
        /\ call.err # "nil" => table = call.before

\* a MigrateBatch whose second changeset failed after the first one ran
C2_Witness ==
    /\ call.op = "MigrateBatch"
    /\ call.fault = [at |-> 2, kind |-> "fn"]
    /\ Len(call.ran) = 2
    /\ call.err = "failed to migrate"

\* C3: MigrateStepByStep is incremental: when the transaction of the k-th
\* pending migration fails, the call returns an error, the pending names are
\* in ascending order, the first k-1 of them have a tracking row, the k-th
\* and the later ones have none, and no changeset after the k-th was run.
C3_StepIncremental ==
    (call.op = "MigrateStepByStep" /\ call.fault.at >= 1) =>
        LET p == call.pending
            k == call.fault.at
        IN  /\ call.err # "nil"
            /\ Ascending(p)
            /\ k <= Len(p)
            /\ \A i \in 1..Len(p) : (i < k) <=> HasRow(table, p[i])
            /\ \A i \in 1..(k - 1) :
                   Cardinality({ j \in DOMAIN table : table[j].name = p[i] }) = 1
            /\ \A i \in DOMAIN call.ran : \E j \in 1..k : call.ran[i] = <<p[j], "up">>
            /\ Len(call.ran) <= k

\* a step-by-step run of three pending migrations whose second step failed
C3_Witness ==
    /\ call.op = "MigrateStepByStep"
    /\ Len(call.pending) = 3
    /\ call.fault.at = 2
    /\ Len(table) = Len(call.before) + 1

\* C4: a successful Rollback removes exactly the rows of the maximum batch
\* read at the start of the call; the rows of smaller batches stay as they
\* were.
C4_RollbackExactlyMaxBatch ==
    (call.op = "Rollback" /\ call.err = "nil") =>
        table = SelectSeq(call.before,
                          LAMBDA row : row.batch # getBatchNumber(call.before))

\* C5: reconciliation is exact: for applied names A and registered names B,
\* distinct in each, getMigrationsToRun returns the names of B - A in
\* ascending order when A - B is empty, and ErrMigrationNotKnown with no
\* pending list otherwise.
C5_ReconciliationExact ==
    LET A == getCompletedMigrations(call.before)
        B == List(World, "x")
    IN  (/\ call.op \in {"MigrateBatch", "MigrateStepByStep"}
         /\ call.fault # [at |-> 0, kind |-> "stmt"]
         /\ Distinct(A) /\ Distinct(B)) =>
            IF Range(A) \ Range(B) = {}
            THEN /\ Range(call.pending) = Range(B) \ Range(A)
                 /\ Ascending(call.pending)
            ELSE /\ call.err = "ErrMigrationNotKnown"
                 /\ call.pending = <<>>

\* a reconciliation of a non-empty table that leaves two names pending
C5_Witness ==
    /\ call.op = "MigrateBatch"
    /\ call.before # <<>>
    /\ Distinct(getCompletedMigrations(call.before))
    /\ Len(call.pending) = 2
    /\ call.fault = NoFault

UnknownApplied(tbl) == \E i \in DOMAIN tbl : ~Registered(tbl[i].name)

\* C6 as stated: with a row of an unregistered name in the tracking table,
\* every orchestration call, Init included, fails with ErrMigrationNotKnown,
\* runs no changeset and leaves the table as it was.
C6_AnyCallFailsOnUnknown ==
    (call.op \in Orchestration /\ UnknownApplied(call.before)) =>
        /\ call.fault = NoFault => call.err = "ErrMigrationNotKnown"
        /\ call.ran = <<>>
        /\ table = call.before

\* C6: with a row of an unregistered name in the tracking table,
\* MigrateBatch, MigrateStepByStep and Rollback fail with
\* ErrMigrationNotKnown, run no changeset and leave the table as it was
\* (Init does not reconcile).
C6_ReconcilingCallsFailOnUnknown ==
    (call.op \in {"MigrateBatch", "MigrateStepByStep", "Rollback"}
        /\ UnknownApplied(call.before)) =>
        /\ call.fault = NoFault => call.err = "ErrMigrationNotKnown"
        /\ call.ran = <<>>
        /\ table = call.before

\* a Rollback refused although the row of the maximum batch is registered
C6_Witness ==
    /\ call.op = "Rollback"
    /\ call.fault = NoFault
    /\ call.err = "ErrMigrationNotKnown"
    /\ Len(call.before) = 2
    /\ Registered(call.before[2].name)
    /\ call.before[2].batch > call.before[1].batch

\* C7: migrating is idempotent: a MigrateBatch or MigrateStepByStep made
\* right after a successful one finds nothing pending, runs no changeset,
\* leaves the table as it was and returns no error (unless a database
\* statement of its own fails).
C7_MigrateIdempotent ==
    (/\ prev.op \in {"MigrateBatch", "MigrateStepByStep"}
     /\ prev.err = "nil"
     /\ call.op \in {"MigrateBatch", "MigrateStepByStep"}) =>
        /\ call.pending = <<>>
        /\ call.ran = <<>>
        /\ table = call.before
        /\ call.fault = NoFault => call.err = "nil"

\* a second migrate after one that applied migrations
C7_Witness ==
    /\ prev.op = "MigrateBatch"
    /\ prev.err = "nil"
    /\ Len(prev.pending) >= 2
    /\ call.op = "MigrateStepByStep"
    /\ call.fault = NoFault
    /\ call.err = "nil"

\* C8: round trip: a successful MigrateBatch with a non-empty pending set
\* followed by a successful Rollback leaves the set of (name, batch) rows,
\* and so the next batch number, as they were before the MigrateBatch.
C8_RoundTrip ==
    (/\ prev.op = "MigrateBatch"
     /\ prev.err = "nil"
     /\ prev.pending # <<>>
     /\ call.op = "Rollback"
     /\ call.err = "nil") =>
        /\ Range(table) = Range(prev.before)
        /\ Len(table) = Len(prev.before)
        /\ getBatchNumber(table) = getBatchNumber(prev.before)

\* registry of three names, empty table: MigrateBatch, Rollback, empty again
C8_Witness ==
    /\ prev.op = "MigrateBatch"
    /\ prev.err = "nil"
    /\ prev.before = <<>>
    /\ Len(prev.pending) = 3
    /\ call.op = "Rollback"
    /\ call.err = "nil"
    /\ Len(call.ran) = 3
    /\ table = <<>>

C10_ListAndMapInSync ==
    \A r \in RegIds :
        /\ Distinct(List(World, r))
        /\ \A name \in Names : Get(World, r, name).ok <=> name \in Range(List(World, r))
        /\ Len(List(World, r)) = Count(World, r)

\* the names Get finds in r
Found(w, r) == { name \in Names : Get(w, r, name).ok }

\* C12: From replaces the contents of the receiver: after r.From(other),
\* whatever r and other held before (r not empty and other empty included),
\* the names r.Get finds are other's names, r.Count() is other.Count() and
\* r.List() is other's names in ascending order; what r held and other does
\* not hold is gone.
C12_FromReplaces ==
    call.op = "From" =>
        /\ Found(World, call.r) = Found(World, call.other)
        /\ Count(World, call.r) = Count(World, call.other)
        /\ Ascending(List(World, call.r))
        /\ Range(List(World, call.r)) = Found(World, call.other)

\* C11: List returns a snapshot copy: the sequence one List call returned
\* keeps its contents and order after any later Register, Sort, From or
\* EnsureCapacity call on the registry, and what the caller does to the
\* returned sequence (sorting it, overwriting an element) does not change
\* what List returns later.
C11_ListIsSnapshot ==
    snap.taken =>
        /\ Elems(World, snap.s) = snap.val
        /\ call.op \in {"CallerSort", "CallerSet"} => List(World, snap.r) = call.was

\* C13: after r.From(other) the two registries are independent: a Register
\* on one of them never changes what List, Get and Count of the other one
\* return, and the List of each registry keeps holding exactly the names
\* registered with it.
C13_IndependentAfterFrom ==
    [][\A r \in RegIds :
          /\ (call'.op = "Register" /\ call'.r # r) =>
                 /\ List(World, r)' = List(World, r)
                 /\ Found(World, r)' = Found(World, r)
                 /\ Count(World, r)' = Count(World, r)
          /\ Range(List(World, r))' = Found(World, r)'
          /\ Len(List(World, r))' = Count(World, r)']_vars

\* t waits for a mutex it cannot get now
Blocked(t) ==
    \/ thr[t].pc = "Lock" /\ ~CanLock(mtx[thr[t].r], t)
    \/ thr[t].pc = "RLock" /\ ~CanRLock(mtx[thr[t].arg], t)

\* the goroutines that hold the mutex t waits for
Holders(t) ==
    IF thr[t].pc = "Lock"
    THEN ({mtx[thr[t].r].w} \ {"none"}) \cup mtx[thr[t].r].rd
    ELSE {mtx[thr[t].arg].w} \ {"none"}

\* t waits for a mutex held by itself, or by a goroutine that waits for a
\* mutex t holds: t waits forever
Stuck(t) ==
    /\ Blocked(t)
    /\ \E h \in Holders(t) : h = t \/ (Blocked(h) /\ t \in Holders(h))

\* C14: From is deadlock-free: no interleaving of a.From(b) with b.From(a),
\* and no r.From(r), reaches a state in which a goroutine holds one lock
\* and waits forever for another, so every From call returns.
C14_FromNeverDeadlocks == \A t \in Threads : ~Stuck(t)

\* what the callers of the registries can see
ObserveAll(w) ==
    [r \in RegIds |-> [list |-> List(w, r), count |-> Count(w, r),
                       get |-> [name \in Names |-> Get(w, r, name)]]]

\* the orders in which the calls of the goroutines can take effect
Orders == { o \in [1..Cardinality(Threads) -> Threads] : Distinct(o) }

RECURSIVE RunInOrder(_, _, _)
\* the Register calls of the goroutines made one after the other
RunInOrder(w, order, errs) ==
    IF order = <<>> THEN [w |-> w, errs |-> errs]
    ELSE LET c   == thr[Head(order)]
             res == Register(w, c.r, c.arg.name, c.arg.up, c.arg.down,
                             w.regs[c.r].migrationNames.len + 1)
         IN  RunInOrder(res.w, Tail(order), [errs EXCEPT ![Head(order)] = res.err])

\* every goroutine has returned from a Register call
AllRegistered == \A t \in Threads : thr[t].pc = "done" /\ thr[t].op = "Register"

\* C15: Register is linearizable: the errors concurrent Register calls
\* return and the registry they leave are those of the same calls made one
\* after the other in some order; of the calls that register one name with
\* accepted changesets exactly one succeeds and the others fail with
\* ErrMigrationAlreadyExists, and calls with distinct names all succeed.
C15_RegisterLinearizable ==
    AllRegistered =>
        /\ \E order \in Orders :
               LET res == RunInOrder(World0, order, [t \in Threads |-> "nil"])
               IN  /\ ObserveAll(res.w) = ObserveAll(World)
                   /\ \A t \in Threads : thr[t].err = res.errs[t]
        /\ \A r \in RegIds, name \in Names :
               LET same == { t \in Threads :
                               /\ thr[t].r = r /\ thr[t].arg.name = name
                               /\ Valid(thr[t].arg.up) /\ Valid(thr[t].arg.down) }
               IN  same # {} =>
                       /\ Cardinality({ t \in same : thr[t].err = "nil" }) = 1
                       /\ \A t \in same :
                              thr[t].err \in {"nil", "ErrMigrationAlreadyExists"}
                       /\ Get(World, r, name).ok

\* two goroutines have registered one name with different changesets: one
\* call succeeded, the other one failed
C15_Witness ==
    /\ AllRegistered
    /\ thr["t1"].r = thr["t2"].r
    /\ thr["t1"].arg.name = thr["t2"].arg.name
    /\ thr["t1"].arg.up # thr["t2"].arg.up
    /\ Valid(thr["t1"].arg.up) /\ Valid(thr["t1"].arg.down)
    /\ Valid(thr["t2"].arg.up) /\ Valid(thr["t2"].arg.down)
    /\ thr["t1"].err # thr["t2"].err

\* b is the greatest batch number of tbl, 0 for the empty table
IsMaxBatch(b, tbl) ==
    IF tbl = <<>> THEN b = 0
    ELSE /\ \E i \in DOMAIN tbl : tbl[i].batch = b
         /\ \A i \in DOMAIN tbl : tbl[i].batch <= b

\* tbl is before followed by one row per name of p, the i-th of them with
\* the batch number batchOf[i]
Appended(tbl, before, p, batchOf) ==
    /\ Len(tbl) = Len(before) + Len(p)
    /\ SubSeq(tbl, 1, Len(before)) = before
    /\ \A i \in DOMAIN p :
           tbl[Len(before) + i] = [name |-> p[i], batch |-> batchOf[i]]

\* p holds, once each, the registered names that have no row in tbl
IsPending(p, tbl) ==
    /\ Distinct(p)
    /\ \A name \in Names : name \in Range(p) <=> (Registered(name) /\ ~HasRow(tbl, name))

\* C16: a successful Init executes the forward changeset of the configured
\* initial migration and of no other, and appends exactly one row, named
\* after it, with batch 1 + the previous greatest batch (1 on an empty
\* table), whatever else is pending or applied; the other rows are unchanged.
C16_InitRunsOnlyInitial ==
    (call.op = "Init" /\ call.err = "nil") =>
        /\ call.ran = << <<DefaultInitialMigrationName, "up">> >>
        /\ \E b \in 0..(MaxRows + MaxPreRows) :
               /\ IsMaxBatch(b, call.before)
               /\ Appended(table, call.before, <<DefaultInitialMigrationName>>, <<b + 1>>)

\* a successful Init on a table that holds another migration while a third
\* one is pending
C16_Witness ==
    /\ call.op = "Init" /\ call.err = "nil"
    /\ \E n \in Names \ {DefaultInitialMigrationName} : HasRow(call.before, n)
    /\ \E n \in Names \ {DefaultInitialMigrationName} : Registered(n) /\ ~HasRow(table, n)

\* C17: Init is all-or-nothing: with the initial name not registered it
\* returns ErrInitialMigrationNotKnown and executes no changeset; when the
\* forward changeset or the insert of the row fails it returns that error;
\* whenever it fails the tracking table is the table of before the call.
C17_InitAllOrNothing ==
    call.op = "Init" =>
        /\ (~Registered(DefaultInitialMigrationName) /\ call.fault = NoFault) =>
               (call.err = "ErrInitialMigrationNotKnown" /\ call.ran = <<>>)
        /\ call.fault.kind = "fn" => call.err = "failed to migrate"
        /\ call.fault.kind = "row" => call.err = "db"
        /\ call.err # "nil" => table = call.before

\* an Init whose forward changeset failed, on a table that holds rows
C17_Witness ==
    /\ call.op = "Init"
    /\ call.fault.kind = "fn"
    /\ call.ran = << <<DefaultInitialMigrationName, "up">> >>
    /\ call.before # <<>>

\* C18: a successful MigrateBatch with pending migrations executes the
\* forward changeset of every pending migration once, in ascending name
\* order, and of no other, and appends one row per pending migration in the
\* same order, all with one batch number, 1 + the previous greatest batch.
C18_BatchRunsAllPending ==
    (call.op = "MigrateBatch" /\ call.err = "nil" /\ call.pending # <<>>) =>
        LET p == call.pending
        IN  /\ Ascending(p)
            /\ IsPending(p, call.before)
            /\ call.ran = [i \in DOMAIN p |-> <<p[i], "up">>]
            /\ \E b \in 0..(MaxRows + MaxPreRows) :
                   /\ IsMaxBatch(b, call.before)
                   /\ Appended(table, call.before, p, [i \in DOMAIN p |-> b + 1])

\* a successful MigrateBatch of two pending migrations after an earlier batch
C18_Witness ==
    /\ call.op = "MigrateBatch" /\ call.err = "nil"
    /\ Len(call.pending) >= 2
    /\ call.before # <<>>

\* C19: a successful MigrateStepByStep gives every migration a batch number
\* of its own: with the previous greatest batch b and the pending names
\* m1 < ... < mn, mi is recorded with batch b + i.
C19_StepOwnBatchNumbers ==
    (call.op = "MigrateStepByStep" /\ call.err = "nil") =>
        LET p == call.pending
        IN  /\ Ascending(p)
            /\ IsPending(p, call.before)
            /\ \E b \in 0..(MaxRows + MaxPreRows) :
                   /\ IsMaxBatch(b, call.before)
                   /\ Appended(table, call.before, p, [i \in DOMAIN p |-> b + i])

\* a successful MigrateStepByStep of two pending migrations after batch 1
C19_Witness ==
    /\ call.op = "MigrateStepByStep" /\ call.err = "nil"
    /\ Len(call.pending) >= 2
    /\ call.before # <<>>

\* C20: after a successful MigrateStepByStep that applied n >= 1 migrations,
\* one successful Rollback executes the backward changeset of the migration
\* applied last, the greatest pending name, and of no other, and removes its
\* row only: the other n - 1 migrations stay recorded.
C20_RollbackAfterStepUndoesLast ==
    (/\ prev.op = "MigrateStepByStep" /\ prev.err = "nil" /\ prev.pending # <<>>
     /\ call.op = "Rollback" /\ call.err = "nil") =>
        LET p    == prev.pending
            last == p[Len(p)]
        IN  /\ \A i \in DOMAIN p : p[i] = last \/ StrLess(p[i], last)
            /\ call.ran = << <<last, "down">> >>
            /\ call.before[Len(call.before)].name = last
            /\ table = SubSeq(call.before, 1, Len(call.before) - 1)
            /\ \A i \in 1..(Len(p) - 1) : HasRow(table, p[i])

\* a successful Rollback right after a MigrateStepByStep that applied two
\* migrations or more
C20_Witness ==
    /\ prev.op = "MigrateStepByStep" /\ prev.err = "nil"
    /\ Len(prev.pending) >= 2
    /\ call.op = "Rollback" /\ call.err = "nil"
    /\ call.fault = NoFault

\* C21: batch numbering: every transaction that records rows (Init,
\* MigrateBatch, each step of MigrateStepByStep) gives them the batch number
\* 1 + the greatest batch number of the table it read, 0 standing for the
\* empty table: a recorded batch number is at least 1 and greater than
\* every batch number the table held at that moment.
C21_BatchIsMaxPlusOne ==
    call.op \in {"Init", "MigrateBatch", "MigrateStepByStep"} =>
        LET n == Len(call.before)
        IN  /\ Len(table) >= n
            /\ SubSeq(table, 1, n) = call.before
            /\ \A i \in (n + 1)..Len(table) :
                   LET read == IF call.op = "MigrateStepByStep"
                               THEN SubSeq(table, 1, i - 1) ELSE call.before
                   IN  /\ table[i].batch >= 1
                       /\ IsMaxBatch(table[i].batch - 1, read)
                       /\ \A j \in DOMAIN read : read[j].batch < table[i].batch

\* a MigrateStepByStep on a table that holds rows of two batches, stopped
\* after the row of its first step
C21_Witness ==
    /\ call.op = "MigrateStepByStep"
    /\ Len(call.before) >= 2
    /\ call.before[1].batch # call.before[Len(call.before)].batch
    /\ call.fault = [at |-> 2, kind |-> "row"]
    /\ Len(table) = Len(call.before) + 1

\* the names of the rows of the greatest batch of tbl, in ascending order
MaxBatchNames(tbl) ==
    SortStrings(getCompletedMigrations(
        SelectSeq(tbl, LAMBDA row : IsMaxBatch(row.batch, tbl))))

\* a backward changeset and the delete of its row for each name, in turn
DownAndDelete(names) ==
    [i \in 1..(2 * Len(names)) |->
        <<names[(i + 1) \div 2], IF i % 2 = 1 THEN "down" ELSE "delete">>]

IsPrefix(s, t) == Len(s) <= Len(t) /\ s = SubSeq(t, 1, Len(s))

\* C25: Rollback executes the backward changesets of the greatest batch in
\* ascending order of name, one after another, and deletes the row of each
\* migration after its own backward changeset succeeded and before the next
\* backward changeset starts.
C25_RollbackAscendingRowByRow ==
    call.op = "Rollback" =>
        /\ IsPrefix(call.ops, DownAndDelete(MaxBatchNames(call.before)))
        /\ (call.err = "nil" /\ ~UnknownApplied(call.before)) =>
               call.ops = DownAndDelete(MaxBatchNames(call.before))

\* a successful Rollback of a batch of two migrations or more
C25_Witness ==
    /\ call.op = "Rollback" /\ call.err = "nil"
    /\ Len(call.ran) >= 2
    /\ Ascending([i \in DOMAIN call.ran |-> call.ran[i][1]])

\* C26: Rollback is one transaction: when a backward changeset or the
\* delete of a row fails, the call returns an error and the tracking table
\* is the table of before the call, the rows of the migrations whose
\* backward changeset had run in the call included.
C26_RollbackAtomic ==
    call.op = "Rollback" =>
        /\ call.fault.kind \in {"fn", "row"} => call.err # "nil"
        /\ call.err # "nil" => table = call.before

\* a Rollback that failed after it had deleted the row of a first migration
C26_Witness ==
    /\ call.op = "Rollback"
    /\ call.fault.at = 2 /\ call.fault.kind \in {"fn", "row"}
    /\ \E i \in DOMAIN call.ops : call.ops[i][2] = "delete"

\* the call invoked the changeset the fault names, which failed, and did
\* nothing after it
StoppedAtFailure ==
    /\ call.err # "nil"
    /\ Len(call.ran) = call.fault.at
    /\ call.ops # <<>>
    /\ call.ops[Len(call.ops)] = call.ran[Len(call.ran)]

\* C29 as stated: within one orchestration call each changeset is invoked
\* at most once, and when an invoked changeset fails the call returns an
\* error, executes no further changeset and inserts or deletes no row after
\* the failure.
C29_NoRetryNoSwallow ==
    call.op \in Orchestration =>
        /\ Distinct(call.ran)
        /\ call.fault.kind = "fn" => StoppedAtFailure

\* C29: the same for every call on a table whose greatest batch holds no
\* name twice; a Rollback invokes the backward changeset once per row of
\* the batch.
C29_NoRetryNoSwallowPerRow ==
    call.op \in Orchestration =>
        /\ (call.op = "Rollback" =>
                Distinct(getMigrationsInBatch(call.before, getBatchNumber(call.before))))
              => Distinct(call.ran)
        /\ call.op = "Rollback" =>
               Len(call.ran) <= Len(getMigrationsInBatch(call.before,
                                                         getBatchNumber(call.before)))
        /\ call.fault.kind = "fn" => StoppedAtFailure

\* a call whose second changeset failed after the first one was recorded
C29_Witness ==
    /\ call.op \in {"MigrateBatch", "MigrateStepByStep"}
    /\ call.fault = [at |-> 2, kind |-> "fn"]
    /\ call.ops = << call.ran[1], <<call.ran[1][1], "insert">>, call.ran[2] >>
    /\ call.before # <<>>

RECURSIVE Without(_, _)
\* the elements of a that do not occur in b, in the order of a
Without(a, b) ==
    IF a = <<>> THEN <<>>
    ELSE IF \E i \in DOMAIN b : b[i] = Head(a) THEN Without(Tail(a), b)
    ELSE <<Head(a)>> \o Without(Tail(a), b)

\* C30: for all lists a and b of names, the three results of
\* difference(a, b) are a - b (the elements of a not in b, in a's order),
\* the union of a and b (every element that occurs in a or in b), and b - a
\* (the elements of b not in a, in b's order).
C30_DifferenceResults ==
    call.op = "difference" =>
        /\ call.res.aNotB = Without(call.a, call.b)
        /\ Range(call.res.unionAB) = Range(call.a) \cup Range(call.b)
        /\ call.res.bNotA = Without(call.b, call.a)

\* the option list asks for a verbosity and for a quiet level above 0
BothRequested(opts) ==
    \E i, j \in DOMAIN opts :
        /\ opts[i].opt = "WithVerbosity" /\ opts[i].arg > 0
        /\ opts[j].opt = "WithQuiet" /\ opts[j].arg > 0

\* C24: NewMigrator fails with ErrInvalidVerbosity whenever its option list
\* asks for a verbosity above 0 and for a quiet level above 0, in either
\* order, and then returns no Migrator.  (A NewMigrator that fails in
\* os.Getwd is left aside.)
C24_VerbosityAndQuietRejected ==
    (call.op = "NewMigrator" /\ BothRequested(call.opts) /\ call.err # "getwd") =>
        (mig.err = "ErrInvalidVerbosity" /\ mig.x = <<>>)

\* the number of rows of name in tbl
RowsOf(tbl, name) == Cardinality({ i \in DOMAIN tbl : tbl[i].name = name })

\* the number of committed invocations of the forward changeset of name
CommittedRuns(name) ==
    Cardinality({ e \in { <<i, j>> : i \in DOMAIN log, j \in 1..MaxRows } :
                    e[2] \in DOMAIN log[e[1]].ran /\ log[e[1]].ran[e[2]] = name })

\* every process has returned from a call of op
AllReturned(ops) == \A p \in Procs : procs[p].pc = "done" /\ procs[p].op \in ops

\* C22: with the table lock, when two processes with the same registry run
\* MigrateBatch at the same time, in every interleaving the forward
\* changeset of each pending migration is committed once and has one row:
\* the process that gets the lock second sees the rows of the first and
\* finds nothing pending.
C22_LockedBatchesApplyOnce ==
    AllReturned({"MigrateBatch"}) =>
        /\ \A name \in Names : RowsOf(table, name) <= 1 /\ CommittedRuns(name) <= 1
        /\ (\E p \in Procs : procs[p].err = "nil") =>
               \A name \in Names :
                   Registered(name) => (RowsOf(table, name) = 1 /\ CommittedRuns(name) = 1)
        /\ (\A p \in Procs : procs[p].err = "nil") =>
               \E p \in Procs : procs[p].pending = <<>>

\* two MigrateBatch calls have returned nil and the table holds two rows
C22_Witness ==
    /\ AllReturned({"MigrateBatch"})
    /\ \A p \in Procs : procs[p].err = "nil"
    /\ Len(table) >= 2
    /\ Len(log) = 1

\* C23: with the table lock, when one process runs MigrateStepByStep while
\* another one runs MigrateStepByStep, MigrateBatch or Init, in every
\* interleaving no forward changeset is committed twice and no name gets
\* two rows.
C23_LockedStepsApplyOnce ==
    (/\ \A p \in Procs : procs[p].pc # "idle"
     /\ \E p \in Procs : procs[p].op = "MigrateStepByStep") =>
        \A name \in Names : RowsOf(table, name) <= 1 /\ CommittedRuns(name) <= 1

\* the batch numbers of the rows of a committed transaction
BatchesOf(e) == { e.rows[i].batch : i \in DOMAIN e.rows }

\* C27: with the table lock, when processes run Init, MigrateBatch and
\* MigrateStepByStep at the same time, no two committed transactions record
\* rows with one batch number: a transaction reads the batch number and
\* inserts its rows while it holds the lock.
C27_LockedBatchNumbersDiffer ==
    \A i, j \in DOMAIN log : i # j => BatchesOf(log[i]) \cap BatchesOf(log[j]) = {}

\* the transactions of two processes have taken turns recording rows
C27_Witness ==
    /\ Len(log) >= 3
    /\ log[1].p # log[2].p
    /\ log[2].p # log[3].p

\* C28: without the table lock (WithoutExplicitLock) maybeLockTable does
\* nothing, and two MigrateBatch calls of two processes that computed the
\* same pending set and the same batch number and both committed leave
\* every migration of the set executed by both: two rows with its name and
\* that batch number.
C28_UnlockedBatchesRace ==
    /\ dblock = "none"
    /\ (/\ AllReturned({"MigrateBatch"})
        /\ \A p \in Procs : procs[p].err = "nil"
        /\ \A p, q \in Procs :
               procs[p].pending = procs[q].pending /\ procs[p].batch = procs[q].batch) =>
           \A p \in Procs : \A i \in DOMAIN procs[p].pending :
               /\ CommittedRuns(procs[p].pending[i]) = Cardinality(Procs)
               /\ Cardinality({ k \in DOMAIN table :
                       table[k] = [name |-> procs[p].pending[i],
                                   batch |-> procs[p].batch] }) = Cardinality(Procs)

\* two MigrateBatch calls have returned nil and a name has two rows with
\* one batch number
C28_Witness ==
    /\ AllReturned({"MigrateBatch"})
    /\ \A p \in Procs : procs[p].err = "nil"
    /\ \E i, j \in DOMAIN table : i # j /\ table[i] = table[j]

\* x.logWithMinVerbosity(requiredVerbosity, ...): whether the message is
\* handed to the logger
logWithMinVerbosity(x, requiredVerbosity) == x.verbosity >= requiredVerbosity

\* the verbosity a message may require: 0 (batch run, rollback, created file)
\* or 1 (NewMigrator's own messages)
RequiredVerbosities == {0, 1}

\* the option list is the single option WithQuiet(q) with q above 0
OnlyQuiet(opts) ==
    Len(opts) = 1 /\ opts[1].opt = "WithQuiet" /\ opts[1].arg > 0

\* C31: quiet is negative verbosity.  The Migrator that NewMigrator returns
\* for WithQuiet(q), q > 0, has a verbosity below 0, prints no message of
\* required verbosity 0, and prints no message that the default Migrator
\* would not print.
C31_QuietIsNegativeVerbosity ==
    (call.op = "NewMigrator" /\ OnlyQuiet(call.opts) /\ mig.err = "nil") =>
        /\ mig.x[1].verbosity < 0
        /\ ~logWithMinVerbosity(mig.x[1], 0)
        /\ \A v \in RequiredVerbosities :
               logWithMinVerbosity(mig.x[1], v) => logWithMinVerbosity(DefaultMigrator, v)

C33_EnsureCapacityUnobservable ==
    call.op = "EnsureCapacity" =>
        /\ ObserveAll(World) = ObserveAll(call.without)
        /\ call.err = call.errWithout

\* C34: r.From(other), r and other two registries, leaves what other shows
\* as it was: other.List() has the same names in the same order, and
\* other.Count() and other.Get of every name return the same, after the
\* call as before it.
C34_FromLeavesOtherAlone ==
    [][(call'.op = "From" /\ calls' = calls + 1) =>
          ObserveAll(World)'[call'.other] = ObserveAll(World)[call'.other]]_vars

\* the batch numbers the rows of tbl carry
BatchNumbers(tbl) == { tbl[i].batch : i \in DOMAIN tbl }

\* C35: whatever Init, MigrateBatch, MigrateStepByStep and Rollback calls
\* were made one at a time from an empty tracking table, with changesets
\* that succeed or fail, the batch numbers in the table are 1..max without
\* a gap, max being the greatest batch number in the table.
C35_BatchNumbersDense ==
    \A b \in BatchNumbers(table) :
        \A c \in 1..b : c \in BatchNumbers(table)

\* C36: every row Init, MigrateBatch or MigrateStepByStep inserts carries a
\* name the registry holds and is inserted right after the forward
\* changeset of that migration was invoked and returned success; the rows
\* the call adds to the table are rows it inserted this way, so a table
\* whose names are all registered never gets a row of an unknown name.
C36_RowsOnlyForRegisteredAndRun ==
    call.op \in ForwardCalls =>
        /\ \A i \in DOMAIN call.ops :
               call.ops[i][2] = "insert" =>
                   /\ Registered(call.ops[i][1])
                   /\ i > 1
                   /\ call.ops[i - 1] = <<call.ops[i][1], "up">>
        /\ Len(table) >= Len(call.before)
        /\ SubSeq(table, 1, Len(call.before)) = call.before
        /\ \A i \in (Len(call.before) + 1)..Len(table) :
               /\ <<table[i].name, "insert">> \in Range(call.ops)
               /\ Registered(table[i].name)
        /\ ~UnknownApplied(call.before) => ~UnknownApplied(table)

\* a MigrateStepByStep call, on a table of registered names, that recorded
\* one migration and failed in the changeset of the next
C36_Witness ==
    /\ call.op = "MigrateStepByStep"
    /\ call.before # <<>>
    /\ ~UnknownApplied(call.before)
    /\ call.fault = [at |-> 2, kind |-> "fn"]
    /\ Len(table) = Len(call.before) + 1

\* C37: after any Register, From, Sort and EnsureCapacity calls on
\* registries that start empty, every migration a registry holds has an up
\* and a down changeset of one of the two accepted shapes, and no Init,
\* MigrateBatch, MigrateStepByStep or Rollback call of the Migrator over
\* such a registry fails with ErrInvalidMigrationFuncRun.
C37_StoredChangesetsValid ==
    /\ \A r \in RegIds : \A name \in DOMAIN regs[r].allMigrations :
           /\ regs[r].allMigrations[name].Up \in {"tx", "txctx"}
           /\ regs[r].allMigrations[name].Down \in {"tx", "txctx"}
    /\ call.op \in Orchestration => call.err # "ErrInvalidMigrationFuncRun"

\* a Rollback that ran a backward changeset, of a Migrator whose registry
\* was refused a changeset of a wrong shape
C37_Witness ==
    /\ call.op = "Rollback"
    /\ call.err = "nil"
    /\ call.ran # <<>>
    /\ Count(World, "x") = 1

\* C38: a Rollback on an empty tracking table, no statement failing,
\* returns no error, invokes no backward changeset and leaves the table
\* empty: the greatest batch number is read as 0, and no row of a table
\* has batch 0.
C38_RollbackOnEmptyTable ==
    /\ \A i \in DOMAIN table : table[i].batch # 0
    /\ (call.op = "Rollback" /\ call.before = <<>> /\ call.fault = NoFault) =>
           /\ getBatchNumber(call.before) = 0
           /\ call.err = "nil"
           /\ call.ran = <<>>
           /\ call.ops = <<>>
           /\ table = <<>>

\* a Rollback right after the Rollback that removed the last rows
C38_Witness ==
    /\ call.op = "Rollback"
    /\ call.before = <<>>
    /\ call.fault = NoFault
    /\ prev.op = "Rollback"
    /\ prev.err = "nil"
    /\ prev.before # <<>>

\* C39: with the table lock in use, statements and changesets that
\* terminate and processes that are scheduled fairly, every orchestration
\* call (Init, MigrateBatch, MigrateStepByStep, Rollback) a process has
\* started returns in the end, whatever the other process does: no call
\* waits for the table lock for ever, and a process that has returned does
\* not hold it.
C39_EveryCallReturns ==
    /\ \A p \in Procs : (procs[p].pc # "idle") ~> (procs[p].pc = "done")
    /\ [](\A p \in Procs : procs[p].pc \in {"idle", "done"} => dblock # p)

\* a Rollback that returned after it undid what the MigrateStepByStep of
\* the other process had committed, both having taken the lock
C39_Witness ==
    \E p, q \in Procs :
        /\ procs[p].pc = "done" /\ procs[p].op = "Rollback" /\ procs[p].err = "nil"
        /\ procs[p].pending # <<>>
        /\ procs[q].pc = "done" /\ procs[q].op = "MigrateStepByStep"
        /\ procs[q].err = "nil"
        /\ Len(log) >= 2

====
